---- MODULE Spec2Model ----
(***************************************************************************)
(* A model of the in-memory virtual file system of src/harness2/vfs.ts     *)
(* (src/unnamed/part_001): entries, directories with lazy population,      *)
(* shadow (copy-on-write) clones, freezing, and directory/file symlinks    *)
(* that mirror their targets through childAdded/childRemoved events.       *)
(*                                                                         *)
(* The object graph is a heap: a function from node ids to records holding *)
(* the private fields of the TypeScript objects.  Every method is an       *)
(* operator that takes the machine state m (heap, allocator, pending       *)
(* exception, emitted events) and returns the new machine state together   *)
(* with the method's result, so that lazy population, event dispatch and   *)
(* exceptions happen exactly where the code makes them happen.             *)
(***************************************************************************)
EXTENDS Integers, Sequences, FiniteSets, TLC

(***************************************************************************)
(* Bounds of the model.                                                    *)
(***************************************************************************)
MaxNodes == 20      \* size of the object heap
MaxOps   == 3       \* number of API calls in one behaviour
MaxDepth == 8      \* call depth after which recursion is a stack overflow

(***************************************************************************)
(* Values.                                                                 *)
(***************************************************************************)
Undefined == "<undefined>"           \* the JavaScript value undefined (content)
None      == 0                       \* undefined / absent object reference

NodeIds == 1 .. MaxNodes

\* instanceof VirtualFile (VirtualFileSymlink extends VirtualFile)
FileKinds == {"file", "flink"}
\* instanceof VirtualDirectory (root and VirtualDirectorySymlink extend it)
DirKinds  == {"dir", "root", "dlink"}
LinkKinds == {"flink", "dlink"}

(***************************************************************************)
(* Path utilities (module vpath, not part of the given sources).  A path   *)
(* string is modelled by its absoluteness and its components.              *)
(***************************************************************************)
Abs(segs) == [abs |-> TRUE, segs |-> segs]
Rel(segs) == [abs |-> FALSE, segs |-> segs]

\* vpath.basename: the last component, "" when there is none
basename(p) == IF p.segs = <<>> THEN "" ELSE p.segs[Len(p.segs)]

\* vpath.dirname: everything before the last component; the result is the
\* empty string (falsy) when the path has at most one component
dirname(p) ==
    IF Len(p.segs) <= 1 THEN Rel(<<>>)
    ELSE [abs |-> p.abs, segs |-> SubSeq(p.segs, 1, Len(p.segs) - 1)]

\* truthiness of a path string
Truthy(p) == p.abs \/ p.segs # <<>>

\* vpath.parse: components[0] is the root part ("" for an absolute path
\* written with a leading separator), followed by the components
parse(p) == IF p.abs THEN <<"">> \o p.segs ELSE p.segs

\* vpath.resolve(base, path)
resolve(base, p) == IF p.abs THEN p ELSE Abs(base.segs \o p.segs)

\* the string of a path that has a single component ("/x" or "x")
PathStr(p) ==
    IF p.segs = <<>> THEN ""
    ELSE IF p.abs THEN "/" \o p.segs[1] ELSE p.segs[1]

(***************************************************************************)
(* Names.  Fold maps a name to its case-folded form; the collator used for *)
(* case-insensitive comparison equates exactly the names with equal folds. *)
(***************************************************************************)
Names == {"a", "A", "b", "d", "D", "f", "F", "l", "n", "p", "x"}

Fold(n) ==
    CASE n = "A" -> "a"
      [] n = "D" -> "d"
      [] n = "F" -> "f"
      [] OTHER   -> n

\* compareStrings as it would be if it never folded case
compareStringsExact(a, b, ignoreCase) ==
    IF a = b THEN 0 ELSE 1

\* compareStrings(a, b, ignoreCase): 0 when equal under the collation
compareStrings(a, b, ignoreCase) ==
    IF a = b THEN 0
    ELSE IF ignoreCase /\ Fold(a) = Fold(b) THEN 0
    ELSE 1

\* A name that is a whole single-component absolute path ("/x").
IsSlashName(n) == \E b \in Names : n = "/" \o b
StripSlash(n)  == CHOOSE b \in Names : n = "/" \o b

(***************************************************************************)
(* The backing store seen through createResolver(io): a fixed real tree    *)
(*   /d/f  (content "s1"),  /d/b/a  (content "s2")                         *)
(***************************************************************************)
StoreDirs(segs) ==
    IF segs = <<"d">> THEN <<"b">> ELSE <<>>

StoreFiles(segs) ==
    IF segs = <<"d">> THEN <<"f">>
    ELSE IF segs = <<"d", "b">> THEN <<"a">>
    ELSE <<>>

StoreContent(segs) ==
    IF segs = <<"d", "f">> THEN "s1"
    ELSE IF segs = <<"d", "b", "a">> THEN "s2"
    ELSE Undefined

\* vpath.resolve(__dirname, "../../"): the directory the built tree is in
BaseLocation == Abs(<<"p">>)

(***************************************************************************)
(* Heap objects.  One record shape for every class; a field a class does   *)
(* not have keeps its default.                                             *)
(*   kind       "fs" | "root" | "dir" | "dlink" | "file" | "flink"         *)
(*              | "class" (the VirtualFileSystem class and its statics)    *)
(*   fsys       VirtualFileSystemEntry.fileSystem                          *)
(*   parent     VirtualFileSystemEntry.parent                              *)
(*   name, ro   VirtualFileSystemEntry.name, _readOnly                     *)
(*   populated, entries   VirtualDirectory._entries (undefined / array)    *)
(*   resolver   _resolver of a directory or file (1 = present)             *)
(*   shadow     _shadowRoot of a directory or file                         *)
(*   content    VirtualFile._content                                       *)
(*   targetPath VirtualDirectorySymlink._targetPath / FileSymlink._target  *)
(*   target     VirtualDirectorySymlink._target                            *)
(*   symLinks   VirtualDirectorySymlink._symLinks, as <<entry, wrapper>>   *)
(*   symPop, symEntries   VirtualDirectorySymlink._symEntries              *)
(*   onAdded    listeners of "childAdded": the subscribed symlinks         *)
(*   onRemoved  listeners of "childRemoved": <<symlink, "P" | "C">>        *)
(*   cwd, cs, root   VirtualFileSystem._currentDirectory,                  *)
(*              _useCaseSensitiveFileNames, _root                          *)
(*   consults   how often resolver.getEntries / the content resolver was   *)
(*              called for this object                                     *)
(*   builtLocal, builtLocalCI, builtLocalCS   the static fields            *)
(*              VirtualFileSystem._builtLocal, _builtLocalCI, _builtLocalCS *)
(***************************************************************************)
NoNode ==
    [kind |-> "none", fsys |-> None, parent |-> None, name |-> "", ro |-> FALSE,
     populated |-> FALSE, entries |-> <<>>, resolver |-> 0, shadow |-> None,
     content |-> Undefined,
     targetPath |-> Rel(<<>>), target |-> None, symLinks |-> {},
     symPop |-> FALSE, symEntries |-> <<>>,
     onAdded |-> <<>>, onRemoved |-> <<>>,
     cwd |-> Rel(<<>>), cs |-> FALSE, root |-> None, consults |-> 0,
     builtLocal |-> None, builtLocalCI |-> None, builtLocalCS |-> None]

(***************************************************************************)
(* Machine state threaded through every method:                            *)
(*   h   the heap, a sequence of objects (the id is the index)             *)
(*   ex  the exception being propagated: "" none, "frozen" the Error of    *)
(*       writePreamble, "overflow" a stack overflow, "oom" the heap bound  *)
(*   ev  the notifications emitted so far in this call                     *)
(*   d   the current call depth                                            *)
(*   cap the number of objects the heap may hold                           *)
(***************************************************************************)
Machine(h) == [h |-> h, ex |-> "", ev |-> <<>>, d |-> 0, cap |-> MaxNodes]

Ret(m, v) == [m |-> m, v |-> v]
Ok(r)     == r.m.ex = ""
Throw(m, what) == [m EXCEPT !.ex = IF @ = "" THEN what ELSE @]

\* new X(...): allocate the next object
New(m, rec) ==
    LET id == Len(m.h) + 1
        m1 == [m EXCEPT !.h = Append(@, rec)]
    IN  Ret(IF id > m.cap THEN Throw(m1, "oom") ELSE m1, id)

IsFile(h, e) == h[e].kind \in FileKinds
IsDir(h, e)  == h[e].kind \in DirKinds
IsLink(h, e) == h[e].kind \in LinkKinds

\* VirtualFileSystemEntry constructor: the parent and fileSystem fields
CtorParent(h, parent) ==
    IF h[parent].kind = "root" THEN h[parent].fsys ELSE parent

CtorEntry(h, parent, kind, name) ==
    [NoNode EXCEPT !.kind = kind, !.name = name,
                   !.parent = CtorParent(h, parent),
                   !.fsys = h[parent].fsys]

\* VirtualFileSystemEntry.path (the cache _path never goes stale: name and
\* parent are readonly); VirtualFileSystem.path is ""
RECURSIVE PathOf(_, _)
PathOf(h, e) ==
    IF h[e].kind = "fs" THEN <<>>
    ELSE IF IsSlashName(h[e].name) THEN <<StripSlash(h[e].name)>>
    ELSE IF h[e].name = "" THEN PathOf(h, h[e].parent)
    ELSE PathOf(h, h[e].parent) \o <<h[e].name>>

\* VirtualFileSystem.sameName
sameName(h, fs, a, b) == compareStrings(a, b, ~h[fs].cs) = 0

\* isMatch(entry, options) without a pattern; kind is "", "file", "directory"
isMatch(h, e, kind) == kind # (IF IsFile(h, e) THEN "directory" ELSE "file")

\* options.pattern === undefined
NoPattern == {Undefined}

\* the options of getEntries; a pattern is the set of the names it matches
Options(recursive, pattern, kind) ==
    [recursive |-> recursive, pattern |-> pattern, kind |-> kind]

\* isMatch(entry, options)
isMatchOptions(h, e, options) ==
    /\ options.pattern = NoPattern \/ h[e].name \in options.pattern
    /\ isMatch(h, e, options.kind)

\* VirtualFileSystemEntry.writePreamble
writePreamble(m, e) == IF m.h[e].ro THEN Throw(m, "frozen") ELSE m

(***************************************************************************)
(* EventEmitter subscriptions (on / removeListener).                       *)
(***************************************************************************)
RemoveLast(seq, x) ==
    IF \E i \in 1 .. Len(seq) : seq[i] = x
    THEN LET k == CHOOSE i \in 1 .. Len(seq) :
                     seq[i] = x /\ \A j \in (i + 1) .. Len(seq) : seq[j] # x
         IN  SubSeq(seq, 1, k - 1) \o SubSeq(seq, k + 1, Len(seq))
    ELSE seq

RemoveAt(seq, k) == SubSeq(seq, 1, k - 1) \o SubSeq(seq, k + 1, Len(seq))

\* Array.prototype.indexOf, 1-based, 0 when absent
IndexOf(seq, x) ==
    IF \E i \in 1 .. Len(seq) : seq[i] = x
    THEN CHOOSE i \in 1 .. Len(seq) :
            seq[i] = x /\ \A j \in 1 .. (i - 1) : seq[j] # x
    ELSE 0

(***************************************************************************)
(* Calls.  A method that can raise returns through Bind, which skips the   *)
(* rest of the caller when an exception is being propagated.  Do(m, f, a)  *)
(* is the call of method f with the argument tuple a.                      *)
(***************************************************************************)
Bind(r, K(_)) == IF r.m.ex # "" THEN Ret(r.m, None) ELSE K(r)

RECURSIVE Do(_, _, _)
RECURSIVE makeReadOnlyAll(_, _, _)
RECURSIVE populateFromStore(_, _, _, _, _)
RECURSIVE cloneAll(_, _, _, _)
RECURSIVE wrapAll(_, _, _, _, _)
RECURSIVE findTarget(_, _, _, _)
RECURSIVE dispatch(_, _, _, _, _)
RECURSIVE ensureLoop(_, _, _, _)
RECURSIVE collectEntries(_, _, _, _, _)

\* VirtualFileSystem.root (getter): the root directory is created on demand
FsRoot(m, fs) ==
    IF m.h[fs].root # None THEN Ret(m, m.h[fs].root)
    ELSE Bind(New(m, CtorEntry(m.h, fs, "root", "")), LAMBDA r :
         IF m.h[fs].ro
         THEN Bind(Do([r.m EXCEPT !.h[fs].root = r.v], "makeReadOnly", <<r.v>>),
                   LAMBDA f : Ret(f.m, r.v))
         ELSE Ret([r.m EXCEPT !.h[fs].root = r.v], r.v))

\* makeReadOnly as it would be if it flipped the flag instead of setting it
makeReadOnlyToggle(m, e) ==
    Bind(IF m.h[e].kind = "fs"
         THEN Bind(FsRoot(m, e), LAMBDA r : Do(r.m, "makeReadOnly", <<r.v>>))
         ELSE IF m.h[e].kind \in DirKinds /\ m.h[e].populated
         THEN makeReadOnlyAll(m, m.h[e].entries, 1)
         ELSE Ret(m, None),
         LAMBDA c : Ret([c.m EXCEPT !.h[e].ro = ~@], None))

\* VirtualFileSystemEntry.makeReadOnly with the makeReadOnlyCore of each class
makeReadOnly(m, e) ==
    Bind(IF m.h[e].kind = "fs"
         THEN Bind(FsRoot(m, e), LAMBDA r : Do(r.m, "makeReadOnly", <<r.v>>))
         ELSE IF m.h[e].kind \in DirKinds /\ m.h[e].populated
         THEN makeReadOnlyAll(m, m.h[e].entries, 1)
         ELSE Ret(m, None),
         LAMBDA c : Ret([c.m EXCEPT !.h[e].ro = TRUE], None))

makeReadOnlyAll(m, entries, i) ==
    IF i > Len(entries) THEN Ret(m, None)
    ELSE Bind(Do(m, "makeReadOnly", <<entries[i]>>), LAMBDA r :
         makeReadOnlyAll(r.m, entries, i + 1))

\* clone as it would be if a copy took over the read-only flag of its source
cloneEntryFrozen(m, e, parent) ==
    IF m.h[e].kind \in {"dir", "root"}
    THEN New(m, [CtorEntry(m.h, parent, "dir", m.h[e].name) EXCEPT
                    !.shadow = e, !.ro = m.h[e].ro])
    ELSE IF m.h[e].kind = "file"
    THEN New(m, [CtorEntry(m.h, parent, "file", m.h[e].name) EXCEPT
                    !.shadow = e, !.ro = m.h[e].ro])
    ELSE New(m, [CtorEntry(m.h, parent, m.h[e].kind, m.h[e].name) EXCEPT
                    !.targetPath = m.h[e].targetPath, !.ro = m.h[e].ro])

\* X.clone(parent) of the four entry classes
cloneEntry(m, e, parent) ==
    IF m.h[e].kind \in {"dir", "root"}
    THEN New(m, [CtorEntry(m.h, parent, "dir", m.h[e].name) EXCEPT !.shadow = e])
    ELSE IF m.h[e].kind = "file"
    THEN New(m, [CtorEntry(m.h, parent, "file", m.h[e].name) EXCEPT !.shadow = e])
    ELSE New(m, [CtorEntry(m.h, parent, m.h[e].kind, m.h[e].name) EXCEPT
                    !.targetPath = m.h[e].targetPath])

\* the two loops that wrap the names reported by resolver.getEntries
populateFromStore(m, d, kind, names, i) ==
    IF i > Len(names) THEN Ret(m, None)
    ELSE Bind(New(m, [CtorEntry(m.h, d, kind, names[i]) EXCEPT !.resolver = 1]),
              LAMBDA r :
         Bind(IF r.m.h[d].ro THEN Do(r.m, "makeReadOnly", <<r.v>>)
              ELSE Ret(r.m, None), LAMBDA f :
         populateFromStore([f.m EXCEPT !.h[d].entries = Append(@, r.v)],
                           d, kind, names, i + 1)))

\* cloneAll as it would be if the shadow's children were shared, not cloned
RECURSIVE cloneAllShared(_, _, _, _)
cloneAllShared(m, d, src, i) ==
    IF i > Len(src) THEN Ret(m, None)
    ELSE cloneAllShared([m EXCEPT !.h[d].entries = Append(@, src[i])],
                        d, src, i + 1)

\* the loop that clones the children of the shadow root
cloneAll(m, d, src, i) ==
    IF i > Len(src) THEN Ret(m, None)
    ELSE Bind(cloneEntry(m, src[i], d), LAMBDA r :
         Bind(IF r.m.h[d].ro THEN Do(r.m, "makeReadOnly", <<r.v>>)
              ELSE Ret(r.m, None), LAMBDA f :
         cloneAll([f.m EXCEPT !.h[d].entries = Append(@, r.v)], d, src, i + 1)))

\* getOwnEntries as it would be if the directory kept its resolver
dirGetOwnEntriesKeepResolver(m, d) ==
    IF m.h[d].populated THEN Ret(m, m.h[d].entries)
    ELSE
    LET m0 == [m EXCEPT !.h[d].populated = TRUE, !.h[d].entries = <<>>,
                        !.h[d].shadow = None]
    IN  IF m.h[d].resolver # 0
        THEN Bind(populateFromStore([m0 EXCEPT !.h[d].consults = @ + 1], d,
                                    "dir", StoreDirs(PathOf(m.h, d)), 1),
                  LAMBDA r1 :
             Bind(populateFromStore(r1.m, d, "file",
                                    StoreFiles(PathOf(m.h, d)), 1),
                  LAMBDA r2 : Ret(r2.m, r2.m.h[d].entries)))
        ELSE IF m.h[d].shadow # None
        THEN Bind(Do(m0, "getOwnEntries", <<m.h[d].shadow>>), LAMBDA r :
             Bind(cloneAll(r.m, d, r.v, 1), LAMBDA c :
             Ret(c.m, c.m.h[d].entries)))
        ELSE Ret(m0, <<>>)

\* VirtualDirectory.getOwnEntries: one-shot lazy population
dirGetOwnEntries(m, d) ==
    IF m.h[d].populated THEN Ret(m, m.h[d].entries)
    ELSE
    LET m0 == [m EXCEPT !.h[d].populated = TRUE, !.h[d].entries = <<>>,
                        !.h[d].resolver = 0, !.h[d].shadow = None]
    IN  IF m.h[d].resolver # 0
        THEN Bind(populateFromStore([m0 EXCEPT !.h[d].consults = @ + 1], d,
                                    "dir", StoreDirs(PathOf(m.h, d)), 1),
                  LAMBDA r1 :
             Bind(populateFromStore(r1.m, d, "file",
                                    StoreFiles(PathOf(m.h, d)), 1),
                  LAMBDA r2 : Ret(r2.m, r2.m.h[d].entries)))
        ELSE IF m.h[d].shadow # None
        THEN Bind(Do(m0, "getOwnEntries", <<m.h[d].shadow>>), LAMBDA r :
             Bind(cloneAll(r.m, d, r.v, 1), LAMBDA c :
             Ret(c.m, c.m.h[d].entries)))
        ELSE Ret(m0, <<>>)

\* VirtualDirectorySymlink.getWrappedEntry
getWrappedEntry(m, s, entry) ==
    IF \E w \in 1 .. Len(m.h) : <<entry, w>> \in m.h[s].symLinks
    THEN Ret(m, CHOOSE w \in 1 .. Len(m.h) : <<entry, w>> \in m.h[s].symLinks)
    ELSE Bind(New(m, [CtorEntry(m.h, s,
                                IF IsFile(m.h, entry) THEN "flink" ELSE "dlink",
                                m.h[entry].name)
                         EXCEPT !.targetPath = Abs(PathOf(m.h, entry))]),
              LAMBDA r :
         Ret([r.m EXCEPT !.h[s].symLinks = @ \cup {<<entry, r.v>>}], r.v))

\* target.getEntries().map(entry => this.getWrappedEntry(entry))
wrapAll(m, s, entries, i, acc) ==
    IF i > Len(entries) THEN Ret(m, acc)
    ELSE Bind(getWrappedEntry(m, s, entries[i]), LAMBDA r :
         wrapAll(r.m, s, entries, i + 1, Append(acc, r.v)))

\* the three subscriptions made by resolveTarget
Subscribe(m, s, t) ==
    [m EXCEPT !.h[s].target = t,
              !.h[m.h[t].parent].onRemoved = Append(@, <<s, "P">>),
              !.h[t].onAdded = Append(@, s),
              !.h[t].onRemoved = Append(@, <<s, "C">>)]

\* VirtualDirectorySymlink.resolveTarget
resolveTarget(m, s) ==
    IF m.h[s].target # None THEN Ret(m, None)
    ELSE Bind(Do(m, "findTarget", <<m.h[s].fsys, m.h[s].targetPath, {}>>),
              LAMBDA r :
         IF r.v # None /\ IsDir(r.m.h, r.v)
         THEN Ret(Subscribe(r.m, s, r.v), None)
         ELSE Ret(r.m, None))

\* VirtualDirectorySymlink.getRealDirectory
getRealDirectory(m, s) ==
    Bind(resolveTarget(m, s), LAMBDA r : Ret(r.m, r.m.h[s].target))

\* VirtualFileSymlink.getRealFile
getRealFile(m, s) ==
    Bind(Do(m, "findTarget", <<m.h[s].fsys, m.h[s].targetPath, {}>>),
         LAMBDA r :
    IF r.v # None /\ IsFile(r.m.h, r.v) THEN r ELSE Ret(r.m, None))

\* VirtualDirectorySymlink.getOwnEntries
linkGetOwnEntries(m, s) ==
    IF m.h[s].symPop THEN Ret(m, m.h[s].symEntries)
    ELSE Bind(getRealDirectory(m, s), LAMBDA r :
         IF r.v = None
         THEN Ret([r.m EXCEPT !.h[s].symPop = TRUE, !.h[s].symEntries = <<>>],
                  <<>>)
         ELSE Bind(Do(r.m, "getOwnEntries", <<r.v>>), LAMBDA r2 :
              Bind(wrapAll(r2.m, s, r2.v, 1, <<>>), LAMBDA r3 :
              Ret([r3.m EXCEPT !.h[s].symPop = TRUE, !.h[s].symEntries = r3.v],
                  r3.v))))

\* the protected getOwnEntries of each container class
getOwnEntries(m, x) ==
    IF m.h[x].kind = "dlink" THEN linkGetOwnEntries(m, x)
    ELSE IF m.h[x].kind = "fs"
    THEN Bind(FsRoot(m, x), LAMBDA r : Do(r.m, "getOwnEntries", <<r.v>>))
    ELSE dirGetOwnEntries(m, x)

\* findTarget(vfs, target, set)
findTarget(m, fs, path, set) ==
    Bind(Do(m, "fsGetEntry", <<fs, path, "", FALSE>>), LAMBDA r :
    IF r.v # None /\ IsLink(r.m.h, r.v)
    THEN IF r.v \in set THEN Ret(r.m, None)
         ELSE findTarget(r.m, fs, r.m.h[r.v].targetPath, set \cup {r.v})
    ELSE r)

\* VirtualFileSystem.getEntry / getFile / getDirectory
fsGetEntry(m, fs, path, kind, follow) ==
    Bind(FsRoot(m, fs), LAMBDA r :
    Do(r.m, "getEntry", <<r.v, resolve(m.h[fs].cwd, path), kind, follow>>))

\* the body of VirtualFileSystemContainer.getEntry
getEntryBody(m, this, path, kind, follow) ==
    IF basename(path) = "" THEN Ret(m, None)
    ELSE IF Truthy(dirname(path))
    THEN Bind(Do(m, "getEntry", <<this, dirname(path), "directory", FALSE>>),
              LAMBDA r :
         IF r.v # None
         THEN Do(r.m, "getEntry", <<r.v, Rel(<<basename(path)>>), kind, follow>>)
         ELSE Ret(r.m, None))
    ELSE Bind(Do(m, "getOwnEntries", <<this>>), LAMBDA r :
         LET fs  == m.h[this].fsys
             hit == {i \in 1 .. Len(r.v) :
                        sameName(r.m.h, fs, r.m.h[r.v[i]].name, basename(path))}
             e   == r.v[CHOOSE i \in hit : \A j \in hit : i <= j]
         IN  IF hit = {} THEN Ret(r.m, None)
             ELSE IF ~isMatch(r.m.h, e, kind) THEN Ret(r.m, None)
             ELSE IF follow /\ IsLink(r.m.h, e)
             THEN Do(r.m, "findTarget", <<fs, r.m.h[e].targetPath, {}>>)
             ELSE Ret(r.m, e))

\* VirtualFileSystemContainer.getEntry / getFile / getDirectory; a call
\* nested deeper than the stack allows raises
getEntry(m, this, path, kind, follow) ==
    IF m.d >= MaxDepth THEN Ret(Throw(m, "overflow"), None)
    ELSE [getEntryBody([m EXCEPT !.d = @ + 1], this, path, kind, follow)
            EXCEPT !.m.d = m.d]

(***************************************************************************)
(* Notifications and the symlink's three handlers.                         *)
(***************************************************************************)
\* the array returned by getOwnEntries() is the live one: push mutates it
PushOwn(m, x, e) ==
    IF m.h[x].kind = "dlink"
    THEN [m EXCEPT !.h[x].symEntries = Append(@, e)]
    ELSE [m EXCEPT !.h[x].entries = Append(@, e)]

\* VirtualDirectorySymlink.invalidateTarget
invalidateTarget(m, s) ==
    IF m.h[s].target = None THEN m
    ELSE [m EXCEPT
            !.h[m.h[m.h[s].target].parent].onRemoved = RemoveLast(@, <<s, "P">>),
            !.h[m.h[s].target].onAdded = RemoveLast(@, s),
            !.h[m.h[s].target].onRemoved = RemoveLast(@, <<s, "C">>),
            !.h[s].target = None, !.h[s].symLinks = {},
            !.h[s].symPop = FALSE, !.h[s].symEntries = <<>>]

\* VirtualDirectorySymlink.onTargetParentChildRemoved
onTargetParentChildRemoved(m, s, entry) ==
    Ret(IF entry # m.h[s].target THEN m ELSE invalidateTarget(m, s), None)

\* VirtualDirectorySymlink.onTargetChildAdded
onTargetChildAdded(m, s, entry) ==
    Bind(getWrappedEntry(m, s, entry), LAMBDA r1 :
    Bind(Do(r1.m, "getOwnEntries", <<s>>), LAMBDA r2 :
    Do(PushOwn(r2.m, s, r1.v), "emit", <<s, "childAdded", r1.v>>)))

\* VirtualDirectorySymlink.onTargetChildRemoved
onTargetChildRemoved(m, s, entry) ==
    Bind(getWrappedEntry(m, s, entry), LAMBDA r1 :
    Bind(Do(r1.m, "getOwnEntries", <<s>>), LAMBDA r2 :
    LET k  == IndexOf(r2.v, r1.v)
        m3 == IF k > 0 THEN [r2.m EXCEPT !.h[s].symEntries = RemoveAt(@, k)]
              ELSE r2.m
    IN  Do([m3 EXCEPT !.h[s].symLinks = {q \in @ : q[1] # entry}],
           "emit", <<s, "childRemoved", r1.v>>)))

\* the listeners registered when emit starts are called in registration
\* order, each running to completion
dispatch(m, ls, i, name, entry) ==
    IF i > Len(ls) THEN Ret(m, None)
    ELSE Bind(IF name = "childAdded"
              THEN onTargetChildAdded(m, ls[i], entry)
              ELSE IF ls[i][2] = "P"
              THEN onTargetParentChildRemoved(m, ls[i][1], entry)
              ELSE onTargetChildRemoved(m, ls[i][1], entry),
              LAMBDA r : dispatch(r.m, ls, i + 1, name, entry))

\* the children a directory holds: _entries, or _symEntries for a symlink
Children(h, d) == IF h[d].kind = "dlink" THEN h[d].symEntries ELSE h[d].entries

\* EventEmitter.emit; the record of the notification keeps the children the
\* emitter holds when the handlers are called
emit(m, x, name, entry) ==
    dispatch([m EXCEPT !.ev = Append(@, <<x, name, entry, Children(m.h, x)>>)],
             IF name = "childAdded" THEN m.h[x].onAdded ELSE m.h[x].onRemoved,
             1, name, entry)

(***************************************************************************)
(* Mutations of a directory.  A method called on a VirtualDirectorySymlink *)
(* runs the symlink's override where it has one.                           *)
(***************************************************************************)
ResolverFn == "<function>"     \* a content resolver passed as file content

\* writePreamble as a step of a method
Guard(m, e) == Ret(writePreamble(m, e), None)

\* this.getOwnEntries().push(entry); this.emit("childAdded", entry)
PushAndEmit(n, this) ==
    Bind(Do(PushOwn(n.m, this, n.v), "emit", <<this, "childAdded", n.v>>),
         LAMBDA r : Ret(r.m, n.v))

\* VirtualDirectory.ensureDirectory
ensureLoop(m, directory, components, i) ==
    IF i > Len(components) THEN Ret(m, directory)
    ELSE Bind(Do(m, "addDirectory", <<directory, Rel(<<components[i]>>), 0>>),
              LAMBDA r :
         IF r.v = None THEN Ret(r.m, None)
         ELSE ensureLoop(r.m, r.v, components, i + 1))

\* ensureDirectory as it would be if it stopped after the first component
ensureDirectoryFirst(m, this, path) ==
    IF \/ Len(parse(path)) <= 1
       \/ parse(path)[1] # ""
       \/ parse(path)[2] = "..."
    THEN Ret(m, None)
    ELSE Do(m, "addDirectory", <<this, Rel(<<parse(path)[2]>>), 0>>)

ensureDirectory(m, this, path) ==
    IF \/ Len(parse(path)) <= 1
       \/ parse(path)[1] # ""
       \/ parse(path)[2] = "..."
    THEN Ret(m, None)
    ELSE ensureLoop(m, this, parse(path), 2)

\* addDirectory as it would be if the write guard ran after the work
addDirectoryLateGuard(m, this, path, resolver) ==
    IF m.h[this].kind = "dlink"
    THEN Bind(getRealDirectory(m, this), LAMBDA t :
         IF t.v # None THEN Do(t.m, "addDirectory", <<t.v, path, resolver>>)
         ELSE Ret(t.m, None))
    ELSE
    Bind(IF basename(path) = "" THEN Ret(m, None)
         ELSE IF Truthy(dirname(path))
         THEN Bind(ensureDirectory(m, this, dirname(path)), LAMBDA r :
              IF r.v # None
              THEN Do(r.m, "addDirectory",
                      <<r.v, Rel(<<basename(path)>>), resolver>>)
              ELSE Ret(r.m, None))
         ELSE Bind(Do(m, "getEntry",
                      <<this, Rel(<<basename(path)>>), "", FALSE>>), LAMBDA g :
              IF g.v = None
              THEN Bind(New(g.m, [CtorEntry(g.m.h, this, "dir", basename(path))
                                    EXCEPT !.resolver = resolver]),
                        LAMBDA n : PushAndEmit(n, this))
              ELSE Ret(g.m, IF IsDir(g.m.h, g.v) THEN g.v ELSE None)),
         LAMBDA r :
    IF m.h[this].ro THEN Ret(Throw(r.m, "frozen"), None) ELSE r)

\* VirtualDirectory.addDirectory and VirtualDirectorySymlink.addDirectory
addDirectory(m, this, path, resolver) ==
    IF m.h[this].kind = "dlink"
    THEN Bind(getRealDirectory(m, this), LAMBDA t :
         IF t.v # None THEN Do(t.m, "addDirectory", <<t.v, path, resolver>>)
         ELSE Ret(t.m, None))
    ELSE
    Bind(Guard(m, this), LAMBDA m0 :
    IF basename(path) = "" THEN Ret(m0.m, None)
    ELSE IF Truthy(dirname(path))
    THEN Bind(ensureDirectory(m0.m, this, dirname(path)), LAMBDA r :
         IF r.v # None
         THEN Do(r.m, "addDirectory", <<r.v, Rel(<<basename(path)>>), resolver>>)
         ELSE Ret(r.m, None))
    ELSE Bind(Do(m0.m, "getEntry", <<this, Rel(<<basename(path)>>), "", FALSE>>),
              LAMBDA g :
         IF g.v = None
         THEN Bind(New(g.m, [CtorEntry(g.m.h, this, "dir", basename(path))
                               EXCEPT !.resolver = resolver]),
                   LAMBDA n : PushAndEmit(n, this))
         ELSE Ret(g.m, IF IsDir(g.m.h, g.v) THEN g.v ELSE None)))

\* new VirtualFile(parent, name, content)
CtorFile(h, parent, name, content) ==
    [CtorEntry(h, parent, "file", name) EXCEPT
        !.content = IF content = ResolverFn THEN Undefined ELSE content,
        !.resolver = IF content = ResolverFn THEN 1 ELSE 0]

\* addFile as it would be if VirtualDirectorySymlink did not override it
addFileInherited(m, this, path, content) ==
    Bind(Guard(m, this), LAMBDA m0 :
    IF basename(path) = "" THEN Ret(m0.m, None)
    ELSE IF Truthy(dirname(path))
    THEN Bind(ensureDirectory(m0.m, this, dirname(path)), LAMBDA r :
         IF r.v # None
         THEN Do(r.m, "addFile", <<r.v, Rel(<<basename(path)>>), content>>)
         ELSE Ret(r.m, None))
    ELSE Bind(Do(m0.m, "getEntry", <<this, Rel(<<basename(path)>>), "", FALSE>>),
              LAMBDA g :
         IF g.v = None
         THEN Bind(New(g.m, CtorFile(g.m.h, this, basename(path), content)),
                   LAMBDA n : PushAndEmit(n, this))
         ELSE Ret(g.m, IF IsFile(g.m.h, g.v) THEN g.v ELSE None)))

\* VirtualDirectory.addFile and VirtualDirectorySymlink.addFile
addFile(m, this, path, content) ==
    IF m.h[this].kind = "dlink"
    THEN Bind(getRealDirectory(m, this), LAMBDA t :
         IF t.v # None THEN Do(t.m, "addFile", <<t.v, path, content>>)
         ELSE Ret(t.m, None))
    ELSE
    Bind(Guard(m, this), LAMBDA m0 :
    IF basename(path) = "" THEN Ret(m0.m, None)
    ELSE IF Truthy(dirname(path))
    THEN Bind(ensureDirectory(m0.m, this, dirname(path)), LAMBDA r :
         IF r.v # None
         THEN Do(r.m, "addFile", <<r.v, Rel(<<basename(path)>>), content>>)
         ELSE Ret(r.m, None))
    ELSE Bind(Do(m0.m, "getEntry", <<this, Rel(<<basename(path)>>), "", FALSE>>),
              LAMBDA g :
         IF g.v = None
         THEN Bind(New(g.m, CtorFile(g.m.h, this, basename(path), content)),
                   LAMBDA n : PushAndEmit(n, this))
         ELSE Ret(g.m, IF IsFile(g.m.h, g.v) THEN g.v ELSE None)))

\* VirtualDirectory.addSymlink (VirtualDirectorySymlink inherits it).
\* The target is an entry (target.e # None) or a path string (target.p).
TargetEntry(e) == [e |-> e, p |-> Rel(<<>>)]
TargetPath(p)  == [e |-> None, p |-> p]

\* the value addSymlink returns for the entry found or created
SymlinkResult(r, target) ==
    Ret(r.m, IF target.e # None /\ IsFile(r.m.h, target.e)
             THEN (IF r.m.h[r.v].kind = "flink" THEN r.v ELSE None)
             ELSE IF target.e # None /\ IsDir(r.m.h, target.e)
             THEN (IF r.m.h[r.v].kind = "dlink" THEN r.v ELSE None)
             ELSE (IF IsLink(r.m.h, r.v) THEN r.v ELSE None))

addSymlink(m, this, path, target) ==
    Bind(Guard(m, this), LAMBDA m0 :
    IF basename(path) = "" THEN Ret(m0.m, None)
    ELSE
    Bind(IF target.e # None THEN Ret(m0.m, target.e)
         ELSE Do(m0.m, "fsGetEntry",
                 <<m.h[this].fsys, resolve(Abs(PathOf(m.h, this)), target.p),
                   "", FALSE>>), LAMBDA te :
    IF te.v = None THEN Ret(te.m, None)
    ELSE IF Truthy(dirname(path))
    THEN Bind(ensureDirectory(te.m, this, dirname(path)), LAMBDA r :
         IF r.v # None
         THEN Do(r.m, "addSymlink",
                 <<r.v, Rel(<<basename(path)>>), TargetEntry(te.v)>>)
         ELSE Ret(r.m, None))
    ELSE Bind(Do(te.m, "getEntry", <<this, path, "", FALSE>>), LAMBDA g :
         IF g.v # None THEN SymlinkResult(g, target)
         ELSE IF ~(IsFile(g.m.h, te.v) \/ IsDir(g.m.h, te.v))
         THEN Ret(g.m, None)
         ELSE Bind(New(g.m, [CtorEntry(g.m.h, this,
                                       IF IsFile(g.m.h, te.v) THEN "flink"
                                       ELSE "dlink", PathStr(path))
                               EXCEPT !.targetPath = Abs(PathOf(g.m.h, te.v))]),
                   LAMBDA n :
              Bind(PushAndEmit(n, this), LAMBDA e :
              SymlinkResult(e, target))))))

\* the loop of removeDirectory / removeFile: the first entry of the wanted
\* class whose name matches is spliced out
RemoveFirst(m, this, str, wantFile) ==
    Bind(Do(m, "getOwnEntries", <<this>>), LAMBDA r :
    LET hit == {i \in 1 .. Len(r.v) :
                   /\ sameName(r.m.h, m.h[this].fsys, str, r.m.h[r.v[i]].name)
                   /\ IF wantFile THEN IsFile(r.m.h, r.v[i])
                                  ELSE IsDir(r.m.h, r.v[i])}
        k   == CHOOSE i \in hit : \A j \in hit : i <= j
    IN  IF hit = {} THEN Ret(r.m, FALSE)
        ELSE Bind(Do([r.m EXCEPT !.h[this].entries = RemoveAt(@, k)],
                     "emit", <<this, "childRemoved", r.v[k]>>),
                  LAMBDA x : Ret(x.m, TRUE)))

\* VirtualDirectory.removeDirectory and VirtualDirectorySymlink.removeDirectory
removeDirectory(m, this, path) ==
    IF m.h[this].kind = "dlink"
    THEN Bind(getRealDirectory(m, this), LAMBDA t :
         IF t.v # None THEN Do(t.m, "removeDirectory", <<t.v, path>>)
         ELSE Ret(t.m, FALSE))
    ELSE
    Bind(Guard(m, this), LAMBDA m0 :
    IF basename(path) = "" THEN Ret(m0.m, FALSE)
    ELSE IF Truthy(dirname(path))
    THEN Bind(Do(m0.m, "getEntry", <<this, dirname(path), "directory", FALSE>>),
              LAMBDA r :
         IF r.v # None
         THEN Do(r.m, "removeDirectory", <<r.v, Rel(<<basename(path)>>)>>)
         ELSE Ret(r.m, FALSE))
    ELSE RemoveFirst(m0.m, this, PathStr(path), FALSE))

\* VirtualDirectory.removeFile and VirtualDirectorySymlink.removeFile
removeFile(m, this, path) ==
    IF m.h[this].kind = "dlink"
    THEN Bind(getRealDirectory(m, this), LAMBDA t :
         IF t.v # None THEN Do(t.m, "removeFile", <<t.v, path>>)
         ELSE Ret(t.m, FALSE))
    ELSE
    Bind(Guard(m, this), LAMBDA m0 :
    IF basename(path) = "" THEN Ret(m0.m, FALSE)
    ELSE IF Truthy(dirname(path))
    THEN Bind(Do(m0.m, "getEntry", <<this, dirname(path), "directory", FALSE>>),
              LAMBDA r :
         IF r.v # None
         THEN Do(r.m, "removeFile", <<r.v, Rel(<<basename(path)>>)>>)
         ELSE Ret(r.m, FALSE))
    ELSE RemoveFirst(m0.m, this, PathStr(path), TRUE))

(***************************************************************************)
(* Files and symlink targets.                                              *)
(***************************************************************************)
\* getContent as it would be if a resolver were dropped only once it has
\* yielded content
getContentKeepResolver(m, f) ==
    IF m.h[f].kind = "flink"
    THEN Bind(getRealFile(m, f), LAMBDA t :
         IF t.v # None THEN Do(t.m, "getContent", <<t.v>>)
         ELSE Ret(t.m, Undefined))
    ELSE IF m.h[f].content # Undefined THEN Ret(m, m.h[f].content)
    ELSE IF m.h[f].resolver # 0
    THEN Ret([m EXCEPT !.h[f].resolver =
                          IF StoreContent(PathOf(m.h, f)) = Undefined THEN 1 ELSE 0,
                       !.h[f].shadow = None,
                       !.h[f].content = StoreContent(PathOf(m.h, f)),
                       !.h[f].consults = @ + 1],
             StoreContent(PathOf(m.h, f)))
    ELSE IF m.h[f].shadow # None
    THEN Bind(Do([m EXCEPT !.h[f].shadow = None], "getContent",
                 <<m.h[f].shadow>>), LAMBDA r :
         Ret([r.m EXCEPT !.h[f].content = r.v], r.v))
    ELSE Ret(m, Undefined)

\* VirtualFile.getContent and VirtualFileSymlink.getContent
getContent(m, f) ==
    IF m.h[f].kind = "flink"
    THEN Bind(getRealFile(m, f), LAMBDA t :
         IF t.v # None THEN Do(t.m, "getContent", <<t.v>>)
         ELSE Ret(t.m, Undefined))
    ELSE IF m.h[f].content # Undefined THEN Ret(m, m.h[f].content)
    ELSE IF m.h[f].resolver # 0
    THEN Ret([m EXCEPT !.h[f].resolver = 0, !.h[f].shadow = None,
                       !.h[f].content = StoreContent(PathOf(m.h, f)),
                       !.h[f].consults = @ + 1],
             StoreContent(PathOf(m.h, f)))
    ELSE IF m.h[f].shadow # None
    THEN Bind(Do([m EXCEPT !.h[f].shadow = None], "getContent",
                 <<m.h[f].shadow>>), LAMBDA r :
         Ret([r.m EXCEPT !.h[f].content = r.v], r.v))
    ELSE Ret(m, Undefined)

\* VirtualFile.setContent and VirtualFileSymlink.setContent
setContent(m, f, value) ==
    IF m.h[f].kind = "flink"
    THEN Bind(getRealFile(m, f), LAMBDA t :
         IF t.v # None THEN Do(t.m, "setContent", <<t.v, value>>)
         ELSE Ret(t.m, None))
    ELSE Bind(Guard(m, f), LAMBDA m0 :
         Ret([m0.m EXCEPT !.h[f].resolver = 0, !.h[f].content = value], None))

\* the target setters of VirtualDirectorySymlink and VirtualFileSymlink
setTarget(m, s, value) ==
    Bind(Guard(m, s), LAMBDA m0 :
    IF m.h[s].kind = "flink"
    THEN Ret([m0.m EXCEPT !.h[s].targetPath = value], None)
    ELSE IF m.h[s].targetPath # value
    THEN Ret(invalidateTarget([m0.m EXCEPT !.h[s].targetPath = value], s), None)
    ELSE m0)

\* isBroken of both symlink classes
isBroken(m, s) ==
    Bind(IF m.h[s].kind = "dlink" THEN getRealDirectory(m, s)
         ELSE getRealFile(m, s),
         LAMBDA r : Ret(r.m, r.v = None))

(***************************************************************************)
(* VirtualFileSystem: paths are resolved against the current directory and *)
(* handed to the root directory.                                           *)
(***************************************************************************)
\* new VirtualFileSystem(currentDirectory, useCaseSensitiveFileNames)
NewFs(m, cwd, cs) ==
    New(m, [NoNode EXCEPT !.kind = "fs", !.fsys = Len(m.h) + 1,
                          !.parent = Len(m.h) + 1, !.cwd = cwd, !.cs = cs])

fsAddDirectory(m, fs, path, resolver) ==
    Bind(FsRoot(m, fs), LAMBDA r :
    Do(r.m, "addDirectory", <<r.v, resolve(m.h[fs].cwd, path), resolver>>))

fsAddFile(m, fs, path, content) ==
    Bind(FsRoot(m, fs), LAMBDA r :
    Do(r.m, "addFile", <<r.v, resolve(m.h[fs].cwd, path), content>>))

fsAddSymlink(m, fs, path, target) ==
    Bind(FsRoot(m, fs), LAMBDA r :
    Do(r.m, "addSymlink",
       <<r.v, resolve(m.h[fs].cwd, path),
         IF target.e = None THEN TargetPath(resolve(m.h[fs].cwd, target.p))
         ELSE target>>))

fsRemoveDirectory(m, fs, path) ==
    Bind(FsRoot(m, fs), LAMBDA r :
    Do(r.m, "removeDirectory", <<r.v, resolve(m.h[fs].cwd, path)>>))

fsRemoveFile(m, fs, path) ==
    Bind(FsRoot(m, fs), LAMBDA r :
    Do(r.m, "removeFile", <<r.v, resolve(m.h[fs].cwd, path)>>))

\* changeDirectory as it would be without the write guard
changeDirectoryUnguarded(m, fs, path) ==
    IF Truthy(path)
    THEN Ret([m EXCEPT !.h[fs].cwd = resolve(m.h[fs].cwd, path)], None)
    ELSE Ret(m, None)

\* VirtualFileSystem.changeDirectory
changeDirectory(m, fs, path) ==
    Bind(Guard(m, fs), LAMBDA m0 :
    IF Truthy(path)
    THEN Ret([m0.m EXCEPT !.h[fs].cwd = resolve(m.h[fs].cwd, path)], None)
    ELSE m0)

\* clone as it would be if it copied the children of the root at once
fsCloneEager(m, fs) ==
    Bind(NewFs(m, m.h[fs].cwd, m.h[fs].cs), LAMBDA f :
    Bind(FsRoot(f.m, fs), LAMBDA r :
    Bind(cloneEntry(r.m, r.v, f.v), LAMBDA c :
    Bind(Do([c.m EXCEPT !.h[f.v].root = c.v], "getOwnEntries", <<c.v>>),
         LAMBDA l : Ret(l.m, f.v)))))

\* VirtualFileSystem.clone
fsClone(m, fs) ==
    Bind(NewFs(m, m.h[fs].cwd, m.h[fs].cs), LAMBDA f :
    Bind(FsRoot(f.m, fs), LAMBDA r :
    Bind(cloneEntry(r.m, r.v, f.v), LAMBDA c :
    Ret([c.m EXCEPT !.h[f.v].root = c.v], f.v))))

\* the part of getBuiltLocal that adapts the shared instance to the policy
\* asked for: vfs.clone(), the policy assigned, makeReadOnly()
WithPolicy(m, vfs, cs) ==
    IF m.h[vfs].cs = cs THEN Ret(m, vfs)
    ELSE Bind(Do(m, "clone", <<vfs>>), LAMBDA c :
         Bind(Do([c.m EXCEPT !.h[c.v].cs = cs], "makeReadOnly", <<c.v>>),
              LAMBDA f : Ret(f.m, c.v)))

\* the part of getBuiltLocal that builds _builtLocal on first use: the file
\* system at the base location, with the host's policy, its two
\* resolver-backed directories added, frozen
BuiltLocal(m, cls) ==
    IF m.h[cls].builtLocal # None THEN Ret(m, m.h[cls].builtLocal)
    ELSE Bind(NewFs(m, BaseLocation, m.h[cls].cs), LAMBDA n :
         Bind(Do(n.m, "fsAddDirectory", <<n.v, Rel(<<"d", "b">>), 1>>), LAMBDA a :
         Bind(Do(a.m, "fsAddDirectory", <<n.v, Rel(<<"a", "l">>), 1>>), LAMBDA b :
         Bind(Do(b.m, "makeReadOnly", <<n.v>>), LAMBDA f :
         Ret([f.m EXCEPT !.h[cls].builtLocal = n.v], n.v)))))

\* getBuiltLocal as it would be if the adapted clone were not frozen
getBuiltLocalUnfrozen(m, cls, cs) ==
    IF (IF cs THEN m.h[cls].builtLocalCS ELSE m.h[cls].builtLocalCI) # None
    THEN Ret(m, IF cs THEN m.h[cls].builtLocalCS ELSE m.h[cls].builtLocalCI)
    ELSE Bind(BuiltLocal(m, cls), LAMBDA b :
         Bind(IF b.m.h[b.v].cs = cs THEN b
              ELSE Bind(Do(b.m, "clone", <<b.v>>), LAMBDA c :
                   Ret([c.m EXCEPT !.h[c.v].cs = cs], c.v)), LAMBDA v :
         Ret(IF cs THEN [v.m EXCEPT !.h[cls].builtLocalCS = v.v]
                   ELSE [v.m EXCEPT !.h[cls].builtLocalCI = v.v], v.v)))

\* VirtualFileSystem.getBuiltLocal(useCaseSensitiveFileNames)
getBuiltLocal(m, cls, cs) ==
    IF (IF cs THEN m.h[cls].builtLocalCS ELSE m.h[cls].builtLocalCI) # None
    THEN Ret(m, IF cs THEN m.h[cls].builtLocalCS ELSE m.h[cls].builtLocalCI)
    ELSE Bind(BuiltLocal(m, cls), LAMBDA b :
         Bind(WithPolicy(b.m, b.v, cs), LAMBDA v :
         Ret(IF cs THEN [v.m EXCEPT !.h[cls].builtLocalCS = v.v]
                   ELSE [v.m EXCEPT !.h[cls].builtLocalCI = v.v], v.v)))

\* the path a name denotes when it is handed to getEntry: a name is one
\* component, except the name "/x" that addSymlink gives a child of the root
NamePath(n) ==
    IF n = "" THEN Rel(<<>>)
    ELSE IF n \in Names THEN Rel(<<n>>)
    ELSE CHOOSE p \in {Abs(<<x>>) : x \in Names} : PathStr(p) = n

\* VirtualFileSystemEntry.exists; VirtualFileSystem.exists is true
exists(m, e) ==
    IF m.h[e].kind = "fs" THEN Ret(m, TRUE)
    ELSE Bind(Do(m, "exists", <<m.h[e].parent>>), LAMBDA r :
         IF ~r.v THEN Ret(r.m, FALSE)
         ELSE Bind(Do(r.m, IF m.h[m.h[e].parent].kind = "fs" THEN "fsGetEntry"
                                                              ELSE "getEntry",
                      <<m.h[e].parent, NamePath(m.h[e].name), "", FALSE>>),
                   LAMBDA g : Ret(g.m, g.v = e)))

\* if (isMatch(entry, options)) results.push(entry)
PushMatch(h, results, e, options) ==
    IF isMatchOptions(h, e, options) THEN Append(results, e) ELSE results

\* the loop of VirtualFileSystemContainer.getEntries over getOwnEntries()
\* when options.recursive is set
collectEntries(m, entries, i, options, results) ==
    IF i > Len(entries) THEN Ret(m, results)
    ELSE IF IsFile(m.h, entries[i])
    THEN collectEntries(m, entries, i + 1, options,
                        PushMatch(m.h, results, entries[i], options))
    ELSE Bind(Do(m, "getEntries", <<entries[i], options>>), LAMBDA c :
         collectEntries(c.m, entries, i + 1, options,
                        PushMatch(m.h, results, entries[i], options) \o c.v))

\* the body of VirtualFileSystemContainer.getEntries
getEntriesBody(m, this, options) ==
    Bind(Do(m, "getOwnEntries", <<this>>), LAMBDA r :
    IF options.recursive
    THEN collectEntries(r.m, r.v, 1, options, <<>>)
    ELSE Ret(r.m, SelectSeq(r.v, LAMBDA e : isMatchOptions(r.m.h, e, options))))

\* VirtualFileSystemContainer.getEntries(options); a call nested deeper than
\* the stack allows raises
getEntries(m, this, options) ==
    IF m.d >= MaxDepth THEN Ret(Throw(m, "overflow"), <<>>)
    ELSE [getEntriesBody([m EXCEPT !.d = @ + 1], this, options)
            EXCEPT !.m.d = m.d]

\* the call of a method: f names it, a holds its arguments
Do(m, f, a) ==
    CASE f = "makeReadOnly"    -> makeReadOnly(m, a[1])
      [] f = "getOwnEntries"   -> getOwnEntries(m, a[1])
      [] f = "findTarget"      -> findTarget(m, a[1], a[2], a[3])
      [] f = "fsGetEntry"      -> fsGetEntry(m, a[1], a[2], a[3], a[4])
      [] f = "getEntry"        -> getEntry(m, a[1], a[2], a[3], a[4])
      [] f = "emit"            -> emit(m, a[1], a[2], a[3])
      [] f = "addDirectory"    -> addDirectory(m, a[1], a[2], a[3])
      [] f = "addFile"         -> addFile(m, a[1], a[2], a[3])
      [] f = "addSymlink"      -> addSymlink(m, a[1], a[2], a[3])
      [] f = "removeDirectory" -> removeDirectory(m, a[1], a[2])
      [] f = "removeFile"      -> removeFile(m, a[1], a[2])
      [] f = "getContent"      -> getContent(m, a[1])
      [] f = "setContent"      -> setContent(m, a[1], a[2])
      [] f = "setTarget"       -> setTarget(m, a[1], a[2])
      [] f = "isBroken"        -> isBroken(m, a[1])
      [] f = "fsAddDirectory"  -> fsAddDirectory(m, a[1], a[2], a[3])
      [] f = "fsAddFile"       -> fsAddFile(m, a[1], a[2], a[3])
      [] f = "fsAddSymlink"    -> fsAddSymlink(m, a[1], a[2], a[3])
      [] f = "fsRemoveDirectory" -> fsRemoveDirectory(m, a[1], a[2])
      [] f = "fsRemoveFile"    -> fsRemoveFile(m, a[1], a[2])
      [] f = "changeDirectory" -> changeDirectory(m, a[1], a[2])
      [] f = "clone"           -> fsClone(m, a[1])
      [] f = "exists"          -> exists(m, a[1])
      [] f = "getBuiltLocal"   -> getBuiltLocal(m, a[1], a[2])
      [] f = "getEntries"      -> getEntries(m, a[1], a[2])

(***************************************************************************)
(* What a caller can observe of a tree: for every path below a directory,  *)
(* the class of the entry there, the content a file yields, the target of  *)
(* a symlink and the names a directory symlink lists.  It is computed by   *)
(* running the lookups themselves on a copy of the heap, so entries not    *)
(* yet materialized are observed as they would materialize.                *)
(***************************************************************************)
\* entries.map(entry => entry.name)
NamesOf(h, entries) == [i \in 1 .. Len(entries) |-> h[entries[i]].name]

ObserveSlack == 40    \* objects the observer may materialize on its copy

Observer(h) == [Machine(h) EXCEPT !.cap = Len(h) + ObserveSlack]

RECURSIVE ObserveAll(_, _, _, _)

ObserveEntry(m, e, path) ==
    IF IsFile(m.h, e)
    THEN Bind(Do(m, "getContent", <<e>>), LAMBDA c :
         Ret(c.m, {IF m.h[e].kind = "file" THEN <<path, "file", c.v>>
                   ELSE <<path, "flink", m.h[e].targetPath.segs, c.v>>}))
    ELSE Bind(Do(m, "getOwnEntries", <<e>>), LAMBDA l :
         IF m.h[e].kind = "dlink"
         THEN Ret(l.m, {<<path, "dlink", m.h[e].targetPath.segs,
                          NamesOf(l.m.h, l.v)>>})
         ELSE Bind(ObserveAll(l.m, l.v, 1, path), LAMBDA r :
              Ret(r.m, {<<path, "dir", NamesOf(l.m.h, l.v)>>} \cup r.v)))

ObserveAll(m, entries, i, path) ==
    IF i > Len(entries) THEN Ret(m, {})
    ELSE Bind(ObserveEntry(m, entries[i], path \o <<m.h[entries[i]].name>>),
              LAMBDA r1 :
         Bind(ObserveAll(r1.m, entries, i + 1, path), LAMBDA r2 :
         Ret(r2.m, r1.v \cup r2.v)))

\* the observable tree of a file system
Observe(h, fs) ==
    Bind(FsRoot(Observer(h), fs), LAMBDA r : ObserveEntry(r.m, r.v, <<>>)).v

(***************************************************************************)
(* The state machine.  One action per public operation; the operation runs *)
(* to completion (single-threaded, synchronous).                           *)
(*   heap   the object heap                                                *)
(*   last   the last call: operation, file system, path, the exception it  *)
(*          raised, its result and the notifications emitted during it     *)
(*   nops   number of calls made                                           *)
(***************************************************************************)
VARIABLES heap, last, nops

vars == <<heap, last, nops>>

NoCall ==
    [op |-> "", fs |-> None, path |-> <<>>, arg |-> <<>>, ex |-> "",
     e |-> None, ok |-> FALSE, content |-> Undefined, names |-> <<>>,
     ev |-> <<>>, options |-> Options(FALSE, NoPattern, "")]

\* a call is recorded unless it hit the bound of the heap
Done(m, call) ==
    /\ nops < MaxOps
    /\ m.ex # "oom"
    /\ heap' = m.h
    /\ last' = [call EXCEPT !.ex = m.ex, !.ev = m.ev]
    /\ nops' = nops + 1

Call(op, fs, path) == [NoCall EXCEPT !.op = op, !.fs = fs, !.path = path]

\* const r = <call>; ...
With(r, K(_)) == K(r)

FileSystems == {i \in 1 .. Len(heap) : heap[i].kind = "fs"}

\* fs.addDirectory(path) / fs.addDirectory(path, resolver)
AddDirectory(fs, path, resolver) ==
    With(Do(Machine(heap), "fsAddDirectory", <<fs, Abs(path), resolver>>),
         LAMBDA r :
    Done(r.m, [Call("addDirectory", fs, path) EXCEPT !.e = r.v]))

\* fs.addFile(path, content)
AddFile(fs, path, content) ==
    With(Do(Machine(heap), "fsAddFile", <<fs, Abs(path), content>>), LAMBDA r :
    Done(r.m, [Call("addFile", fs, path) EXCEPT !.e = r.v, !.content = content]))

\* fs.addSymlink(path, fs.getEntry(target)): the target given as an entry
AddSymlink(fs, path, target) ==
    With(Do(Machine(heap), "fsGetEntry", <<fs, Abs(target), "", FALSE>>),
         LAMBDA t :
    /\ Ok(t) /\ t.v # None
    /\ With(Do(t.m, "fsAddSymlink", <<fs, Abs(path), TargetEntry(t.v)>>),
            LAMBDA r :
       Done(r.m, [Call("addSymlink", fs, path) EXCEPT
                     !.e = r.v, !.arg = target])))

\* fs.addSymlink(path, target): the target given as a path string
AddSymlinkTo(fs, path, target) ==
    With(Do(Machine(heap), "fsAddSymlink",
            <<fs, Abs(path), TargetPath(Abs(target))>>), LAMBDA r :
    Done(r.m, [Call("addSymlink", fs, path) EXCEPT !.e = r.v, !.arg = target]))

\* fs.removeDirectory(path)
RemoveDirectory(fs, path) ==
    With(Do(Machine(heap), "fsRemoveDirectory", <<fs, Abs(path)>>), LAMBDA r :
    Done(r.m, [Call("removeDirectory", fs, path) EXCEPT !.ok = Ok(r) /\ r.v]))

\* fs.removeFile(path)
RemoveFile(fs, path) ==
    With(Do(Machine(heap), "fsRemoveFile", <<fs, Abs(path)>>), LAMBDA r :
    Done(r.m, [Call("removeFile", fs, path) EXCEPT !.ok = Ok(r) /\ r.v]))

\* f = fs.getFile(path); f && f.getContent()
ReadFile(fs, path) ==
    With(Do(Machine(heap), "fsGetEntry", <<fs, Abs(path), "file", FALSE>>),
         LAMBDA g :
    IF Ok(g) /\ g.v # None
    THEN With(Do(g.m, "getContent", <<g.v>>), LAMBDA c :
         Done(c.m, [Call("getFile", fs, path) EXCEPT
                       !.e = g.v,
                       !.content = IF Ok(c) THEN c.v ELSE Undefined]))
    ELSE Done(g.m, Call("getFile", fs, path)))

\* d = fs.getDirectory(path); d && d.getEntries()
List(fs, path) ==
    With(Do(Machine(heap), "fsGetEntry", <<fs, Abs(path), "directory", FALSE>>),
         LAMBDA g :
    IF Ok(g) /\ g.v # None
    THEN With(Do(g.m, "getOwnEntries", <<g.v>>), LAMBDA l :
         Done(l.m, [Call("getEntries", fs, path) EXCEPT
                       !.e = g.v,
                       !.arg = IF Ok(l) THEN l.v ELSE <<>>,
                       !.names = IF Ok(l) THEN NamesOf(l.m.h, l.v) ELSE <<>>]))
    ELSE Done(g.m, Call("getEntries", fs, path)))

\* s = fs.getEntry(path); s.isBroken, for a symlink s
IsBroken(fs, path) ==
    With(Do(Machine(heap), "fsGetEntry", <<fs, Abs(path), "", FALSE>>),
         LAMBDA g :
    /\ Ok(g) /\ g.v # None /\ IsLink(g.m.h, g.v)
    /\ With(Do(g.m, "isBroken", <<g.v>>), LAMBDA b :
       Done(b.m, [Call("isBroken", fs, path) EXCEPT
                     !.e = g.v, !.ok = Ok(b) /\ b.v])))

\* f = fs.getFile(path); f.setContent(value)
SetContent(fs, path, value) ==
    With(Do(Machine(heap), "fsGetEntry", <<fs, Abs(path), "file", FALSE>>),
         LAMBDA g :
    /\ Ok(g) /\ g.v # None
    /\ Done(Do(g.m, "setContent", <<g.v, value>>).m,
            [Call("setContent", fs, path) EXCEPT !.e = g.v, !.content = value]))

\* s = fs.getEntry(path); s.target = value, for a symlink s
SetTarget(fs, path, value) ==
    With(Do(Machine(heap), "fsGetEntry", <<fs, Abs(path), "", FALSE>>),
         LAMBDA g :
    /\ Ok(g) /\ g.v # None /\ IsLink(g.m.h, g.v)
    /\ Done(Do(g.m, "setTarget", <<g.v, Abs(value)>>).m,
            [Call("setTarget", fs, path) EXCEPT !.e = g.v, !.arg = value]))

\* fs.makeReadOnly()
MakeReadOnly(fs) ==
    Done(Do(Machine(heap), "makeReadOnly", <<fs>>).m,
         Call("makeReadOnly", fs, <<>>))

\* e = fs.getEntry(path); e.makeReadOnly()
MakeEntryReadOnly(fs, path) ==
    With(Do(Machine(heap), "fsGetEntry", <<fs, Abs(path), "", FALSE>>),
         LAMBDA g :
    /\ Ok(g) /\ g.v # None
    /\ Done(Do(g.m, "makeReadOnly", <<g.v>>).m,
            [Call("entry.makeReadOnly", fs, path) EXCEPT !.e = g.v]))

\* fs.changeDirectory(path)
ChangeDirectory(fs, path) ==
    Done(Do(Machine(heap), "changeDirectory", <<fs, Abs(path)>>).m,
         Call("changeDirectory", fs, path))

\* fs.clone()
Clone(fs) ==
    With(Do(Machine(heap), "clone", <<fs>>), LAMBDA r :
    Done(r.m, [Call("clone", fs, <<>>) EXCEPT !.e = r.v]))

(***************************************************************************)
(* Initial trees, each built by the operations themselves.                 *)
(***************************************************************************)
\* new VirtualFileSystem("/", cs)
EmptyFs(cs) == NewFs(Machine(<<>>), Abs(<<>>), cs).m

\* a sequence of calls <<method, arguments>> made one after the other
RECURSIVE Script(_, _, _)
Script(m, calls, i) ==
    IF i > Len(calls) THEN m
    ELSE Script(Do(m, calls[i][1], calls[i][2]).m, calls, i + 1)

TheFs == 1

\* /d (backed by the store: /d/f, /d/b/a), /a/f = "c1", /a/l -> /d
BaseCalls ==
    << <<"fsAddDirectory", <<TheFs, Abs(<<"d">>), 1>> >>,
       <<"fsAddFile", <<TheFs, Abs(<<"a", "f">>), "c1">> >>,
       <<"fsAddSymlink", <<TheFs, Abs(<<"a", "l">>), TargetPath(Abs(<<"d">>))>> >> >>

TreeOf(cs) == Script(EmptyFs(cs), BaseCalls, 1)

BaseTree == TreeOf(TRUE)

\* the same tree frozen, as getBuiltLocal hands it out
FrozenTree == Script(EmptyFs(TRUE), Append(BaseCalls, <<"makeReadOnly", <<TheFs>> >>), 1)
(***************************************************************************)
(* Cloning: F is built (frozen or not), cloned once, and the clone is      *)
(* mutated and read.                                                       *)
(***************************************************************************)
ClonePaths == {<<"a", "f">>, <<"a", "l", "f">>, <<"d", "b">>, <<"a", "l", "b", "a">>}
CloneContents == {"c2", Undefined}

TheClone == CHOOSE i \in FileSystems : i # TheFs

InitClone ==
    /\ heap \in {BaseTree.h, FrozenTree.h}
    /\ last = NoCall
    /\ nops = 0

NextClone ==
    \/ /\ FileSystems = {TheFs}
       /\ Clone(TheFs)
    \/ /\ FileSystems # {TheFs}
       /\ \E p \in ClonePaths :
            \/ \E c \in CloneContents : AddFile(TheClone, p, c)
            \/ AddDirectory(TheClone, p, 0)
            \/ \E t \in {<<"a">>, <<"d", "f">>} : AddSymlink(TheClone, p, t)
            \/ RemoveFile(TheClone, p)
            \/ RemoveDirectory(TheClone, p)
            \/ \E c \in CloneContents : SetContent(TheClone, p, c)

SpecClone == InitClone /\ [][NextClone]_vars

\* C1: a call on the clone F' leaves what F shows (contents, listings) as it was
CloneLeavesOriginal ==
    [][last'.fs # TheFs => Observe(heap', TheFs) = Observe(heap, TheFs)]_vars

\* the clone has been changed where the original has an entry
CloneMutatedWitness ==
    /\ FileSystems # {TheFs}
    /\ Observe(heap, TheClone) # Observe(heap, TheFs)
    /\ last.op \in {"removeFile", "setContent"}

(***************************************************************************)
(* Freezing: the tree is frozen as a whole or entry by entry, and every    *)
(* mutating operation is tried on it.                                      *)
(***************************************************************************)
MutationOps ==
    {"addDirectory", "addFile", "addSymlink", "removeDirectory", "removeFile",
     "setContent", "setTarget", "changeDirectory"}

FreezeAddPaths    == {<<"a", "n">>, <<"a", "l", "n">>, <<"d", "b", "n">>}
FreezeRemovePaths == {<<"a", "f">>, <<"a", "l", "f">>}
FreezeEntryPaths  == {<<"a">>, <<"a", "l">>, <<"d">>}
FreezeLinkPaths   == {<<"a", "l">>, <<"a", "l", "f">>}

InitFreeze ==
    /\ heap = BaseTree.h
    /\ last = NoCall
    /\ nops = 0

NextFreeze ==
    \/ MakeReadOnly(TheFs)
    \/ \E p \in FreezeEntryPaths : MakeEntryReadOnly(TheFs, p)
    \/ \E p \in FreezeAddPaths : AddFile(TheFs, p, "c2")
    \/ \E p \in FreezeAddPaths : AddDirectory(TheFs, p, 0)
    \/ \E p \in FreezeAddPaths : AddSymlink(TheFs, p, <<"a", "f">>)
    \/ \E p \in FreezeRemovePaths : RemoveFile(TheFs, p)
    \/ \E p \in {<<"a", "l", "b">>, <<"a", "l">>} : RemoveDirectory(TheFs, p)
    \/ \E p \in FreezeRemovePaths : SetContent(TheFs, p, "c2")
    \/ \E p \in FreezeLinkPaths : SetTarget(TheFs, p, <<"a">>)
    \/ ChangeDirectory(TheFs, <<"a">>)

SpecFreeze == InitFreeze /\ [][NextFreeze]_vars

\* C2: once the file system is frozen every mutating call raises
FrozenFsRejectsAll ==
    [][(heap[TheFs].ro /\ last'.op \in MutationOps) => last'.ex = "frozen"]_vars

\* the entry a call is finally made on: the directory at the dirname of the
\* path for add / remove, the entry at the path for setContent / target, the
\* file system itself for changeDirectory (looked up on a copy of the heap)
InvokedOn(h, call) ==
    IF call.op \in {"setContent", "setTarget"}
    THEN fsGetEntry(Observer(h), call.fs, Abs(call.path), "", FALSE)
    ELSE IF call.op = "changeDirectory" THEN Ret(Observer(h), call.fs)
    ELSE IF Len(call.path) <= 1 THEN FsRoot(Observer(h), call.fs)
    ELSE fsGetEntry(Observer(h), call.fs,
                    Abs(SubSeq(call.path, 1, Len(call.path) - 1)),
                    "directory", FALSE)

InvokedOnFrozen(h, call) ==
    LET r == InvokedOn(h, call)
    IN  r.v # None /\ r.m.h[r.v].ro

\* C10: a mutating call made on an entry that is itself frozen raises
FrozenEntryRejects ==
    [][(last'.op \in MutationOps /\ InvokedOnFrozen(heap, last'))
          => last'.ex = "frozen"]_vars

\* C9: a call that raises ImmutableViolation has changed nothing
ThrowChangesNothing ==
    [][last'.ex = "frozen" =>
          /\ Observe(heap', TheFs) = Observe(heap, TheFs)
          /\ heap'[TheFs].cwd = heap[TheFs].cwd
          /\ last'.ev = <<>>]_vars

\* a multi-segment add raised after walking through unfrozen directories
ThrowWitness ==
    /\ last.ex = "frozen"
    /\ last.op \in {"addFile", "addDirectory"}
    /\ ~heap[TheFs].ro
    /\ ~heap[heap[TheFs].root].ro
    /\ Len(last.path) >= 2

(***************************************************************************)
(* Symlinks: /p/d holds file f; /p/a is a directory symlink to /p/d and    *)
(* /p/b a directory symlink to /p/a.  The links are resolved, listed, read *)
(* through and retargeted while files come and go in /p/d.                 *)
(***************************************************************************)
LinkCalls ==
    << <<"fsAddFile", <<TheFs, Abs(<<"p", "d", "f">>), "c1">> >>,
       <<"fsAddSymlink", <<TheFs, Abs(<<"p", "a">>),
                           TargetPath(Abs(<<"p", "d">>))>> >>,
       <<"fsAddSymlink", <<TheFs, Abs(<<"p", "b">>),
                           TargetPath(Abs(<<"p", "a">>))>> >> >>

LinkTree == Script(EmptyFs(TRUE), LinkCalls, 1)

TheDir  == <<"p", "d">>      \* D
TheLink == <<"p", "a">>      \* S, L and A
TheBack == <<"p", "b">>      \* B

LinkFileNames == {"f", "x"}

InitLink ==
    /\ heap = LinkTree.h
    /\ last = NoCall
    /\ nops = 0

NextLink ==
    \/ \E p \in {TheLink, TheBack} : IsBroken(TheFs, p)
    \/ \E p \in {TheLink, TheDir} : List(TheFs, p)
    \/ \E d \in {TheLink, TheDir} : AddFile(TheFs, d \o <<"x">>, "c2")
    \/ \E d \in {TheLink, TheDir}, n \in LinkFileNames :
            RemoveFile(TheFs, d \o <<n>>)
    \/ \E d \in {TheLink, TheBack}, n \in LinkFileNames :
            ReadFile(TheFs, d \o <<n>>)
    \/ SetTarget(TheFs, TheLink, TheBack)

SpecLink == InitLink /\ [][NextLink]_vars

\* fs.getEntry(path) / fs.getFile(path) on a copy of the heap
Lookup(h, path, kind) ==
    Do(Observer(h), "fsGetEntry", <<TheFs, Abs(path), kind, FALSE>>)

\* the entry at a path, None when absent
EntryAt(h, path) == Lookup(h, path, "").v

\* the names a directory lists
Listing(h, path) ==
    Bind(Lookup(h, path, "directory"), LAMBDA g :
    Bind(Do(g.m, "getOwnEntries", <<g.v>>), LAMBDA l :
    Ret(l.m, NamesOf(l.m.h, l.v)))).v

\* the content fs.getFile(path).getContent() yields
ContentAt(h, path) ==
    Bind(Lookup(h, path, "file"), LAMBDA g :
    IF g.v = None THEN Ret(g.m, Undefined)
    ELSE Do(g.m, "getContent", <<g.v>>)).v

\* symlink S has been resolved to directory D
ResolvedTo(h, link, dir) ==
    /\ EntryAt(h, link) # None
    /\ EntryAt(h, dir) # None
    /\ h[EntryAt(h, link)].target = EntryAt(h, dir)

\* C3: once S is resolved to D, a file added to D is listed by S, and a file
\* removed from D can no longer be looked up through S
MirroringIsLive ==
    [][ResolvedTo(heap, TheLink, TheDir) =>
          /\ (last'.op = "addFile" /\ last'.e # None) =>
                \E i \in DOMAIN Listing(heap', TheLink) :
                    Listing(heap', TheLink)[i] = last'.path[Len(last'.path)]
          /\ (last'.op = "removeFile" /\ last'.ok) =>
                EntryAt(heap', TheLink \o <<last'.path[Len(last'.path)]>>) = None
       ]_vars

\* L targets D: the target path of the symlink names the directory
Targets(h, link, path) ==
    /\ EntryAt(h, link) # None
    /\ h[EntryAt(h, link)].kind = "dlink"
    /\ h[EntryAt(h, link)].targetPath = Abs(path)

\* the names of the files in a directory
FilesIn(h, dir) ==
    {n \in LinkFileNames : Lookup(h, dir \o <<n>>, "file").v # None}

\* C4: every file of D reads through L with the content it has in D, and a
\* file removed from D is absent when looked up through L
ReadThroughLink ==
    [][Targets(heap', TheLink, TheDir) =>
          /\ \A n \in FilesIn(heap', TheDir) :
                ContentAt(heap', TheLink \o <<n>>) = ContentAt(heap', TheDir \o <<n>>)
          /\ \A n \in LinkFileNames :
                (/\ last'.op = "removeFile" /\ last'.ok
                 /\ last'.path = TheDir \o <<n>>)
                => Lookup(heap', TheLink \o <<n>>, "file").v = None
       ]_vars

\* s.isBroken for the symlink at a path, on a copy of the heap
BrokenAt(h, link) ==
    Bind(Lookup(h, link, ""), LAMBDA g : Do(g.m, "isBroken", <<g.v>>))

\* C5: when A targets B and B targets A, isBroken terminates with true for
\* both of them
CycleIsBroken ==
    (Targets(heap, TheLink, TheBack) /\ Targets(heap, TheBack, TheLink)) =>
        \A l \in {TheLink, TheBack} : Ok(BrokenAt(heap, l)) /\ BrokenAt(heap, l).v

(***************************************************************************)
(* The file system in general: a case-sensitive or case-insensitive tree   *)
(* is added to, removed from, listed, read and cloned, under names that    *)
(* differ in case only as well as under different names.                   *)
(***************************************************************************)
TheStoreDir == <<"d">>         \* the directory backed by the store

AddPaths    == {<<"a", "f">>, <<"a", "F">>, <<"d", "F">>, <<"A", "n">>}
RemovePaths == {<<"a", "F">>, <<"d", "F">>, <<"d", "f">>}
ReadPaths   == {<<"a", "F">>, <<"d", "f">>}
ListPaths   == {<<"d">>, <<"D">>, <<"a">>}

Init ==
    /\ heap \in {TreeOf(cs).h : cs \in BOOLEAN}
    /\ last = NoCall
    /\ nops = 0

Next ==
    \/ \E p \in AddPaths : AddFile(TheFs, p, "c2")
    \/ AddDirectory(TheFs, <<"A">>, 0)
    \/ \E p \in RemovePaths : RemoveFile(TheFs, p)
    \/ RemoveDirectory(TheFs, <<"A">>)
    \/ \E p \in ReadPaths : ReadFile(TheFs, p)
    \/ \E p \in ListPaths : List(TheFs, p)
    \/ /\ FileSystems = {TheFs}
       /\ Clone(TheFs)
    \/ /\ FileSystems # {TheFs}
       /\ List(TheClone, TheStoreDir)

Spec == Init /\ [][Next]_vars

\* C6: after addFile(p, c) has returned a file, getFile(p).getContent() is c
AddedFileHasContent ==
    [][(last'.op = "addFile" /\ last'.e # None) =>
          ContentAt(heap', last'.path) = last'.content]_vars

\* the directories of the heap
Directories(h) == {e \in 1 .. Len(h) : h[e].kind \in {"dir", "root"}}

\* the names the resolver reports for a directory: directories, then files
Reported(h, d) == StoreDirs(PathOf(h, d)) \o StoreFiles(PathOf(h, d))

NoDuplicates(seq) ==
    \A i, j \in DOMAIN seq : seq[i] = seq[j] => i = j

\* C7: the listing that populates a directory from the resolver is exactly
\* what the resolver reported, without duplicates; listing a populated
\* directory returns the objects it holds; the resolver of a directory is
\* consulted at most once, and a populated directory holds neither resolver
\* nor shadow root
LazyPopulationOnce ==
    [][/\ \A d \in Directories(heap') :
             /\ heap'[d].consults <= 1
             /\ heap'[d].populated =>
                   heap'[d].resolver = 0 /\ heap'[d].shadow = None
             /\ d \in Directories(heap) =>
                   /\ heap'[d].consults >= heap[d].consults
                   /\ heap[d].populated =>
                         /\ heap'[d].populated
                         /\ heap'[d].consults = heap[d].consults
       /\ (last'.op = "getEntries" /\ last'.e \in Directories(heap)) =>
             /\ (~heap[last'.e].populated /\ heap[last'.e].resolver # 0) =>
                   /\ last'.names = Reported(heap, last'.e)
                   /\ NoDuplicates(last'.names)
                   /\ heap'[last'.e].consults = 1
             /\ heap[last'.e].populated => last'.arg = heap[last'.e].entries
      ]_vars

\* after an earlier call, a listing of the store directory shows what the
\* resolver reported, the resolver having been consulted once
ListedTwiceWitness ==
    /\ last.op = "getEntries"
    /\ last.e \in Directories(heap)
    /\ heap[last.e].consults = 1
    /\ last.names = <<"b", "f">>
    /\ nops >= 2

\* the paths of the model that differ from the given one only in case
Variants(path) ==
    {q \in {<<"a">>, <<"A">>, <<"d">>, <<"D">>,
             <<"a", "f">>, <<"a", "F">>, <<"d", "f">>, <<"d", "F">>} :
        /\ q # path
        /\ Len(q) = Len(path)
        /\ \A i \in DOMAIN q : Fold(q[i]) = Fold(path[i])}

CasePaths == {<<"a">>, <<"d">>, <<"a", "f">>, <<"d", "f">>}

\* no two names of the listing differ only in case
NoFoldDuplicates(seq) ==
    \A i, j \in DOMAIN seq : Fold(seq[i]) = Fold(seq[j]) => i = j

Parent(path) == SubSeq(path, 1, Len(path) - 1)

ListingOf(h, path) ==
    IF EntryAt(h, path) = None THEN <<>> ELSE Listing(h, path)

SymCalls ==
    << <<"fsAddFile", <<TheFs, Abs(<<"p", "d", "f">>), "c1">> >>,
       <<"fsAddDirectory", <<TheFs, Abs(<<"p", "D">>), 0>> >>,
       <<"fsAddFile", <<TheFs, Abs(<<"p", "F">>), "c3">> >>,
       <<"fsAddSymlink", <<TheFs, Abs(<<"p", "a">>),
                           TargetPath(Abs(<<"p", "d">>))>> >>,
       <<"fsAddSymlink", <<TheFs, Abs(<<"p", "l">>),
                           TargetPath(Abs(<<"p", "d", "f">>))>> >>,
       <<"fsAddSymlink", <<TheFs, Abs(<<"p", "b">>),
                           TargetPath(Abs(<<"p", "D">>))>> >>,
       <<"fsAddSymlink", <<TheFs, Abs(<<"p", "n">>),
                           TargetPath(Abs(<<"p", "F">>))>> >>,
       <<"fsRemoveDirectory", <<TheFs, Abs(<<"p", "D">>)>> >>,
       <<"fsRemoveFile", <<TheFs, Abs(<<"p", "F">>)>> >> >>

SymTree == Script(EmptyFs(TRUE), SymCalls, 1)

TheFileLink   == <<"p", "l">>     \* file symlink to /p/d/f
BrokenDirLink == <<"p", "b">>     \* directory symlink to the removed /p/D
BrokenFileLink == <<"p", "n">>    \* file symlink to the removed /p/F
DirLinks  == {TheLink, BrokenDirLink}
FileLinks == {TheFileLink, BrokenFileLink}

\* d = fs.getDirectory(at); d.addDirectory(name) / d.addFile(name, content) /
\* d.addSymlink(name, target): the method called on the entry itself
OnEntry(fs, at, f, name, arg) ==
    With(Do(Machine(heap), "fsGetEntry", <<fs, Abs(at), "directory", FALSE>>),
         LAMBDA g :
    /\ Ok(g) /\ g.v # None
    /\ With(Do(g.m, f, <<g.v, Rel(<<name>>), arg>>), LAMBDA r :
       Done(r.m, [Call(f, fs, at \o <<name>>) EXCEPT !.e = r.v])))

InitSym ==
    /\ heap = SymTree.h
    /\ last = NoCall
    /\ nops = 0

NextSym ==
    \/ \E s \in DirLinks : AddDirectory(TheFs, s \o <<"n">>, 0)
    \/ \E s \in DirLinks : AddFile(TheFs, s \o <<"x">>, "c2")
    \/ AddSymlinkTo(TheFs, TheLink \o <<"b">>, <<"p", "d", "f">>)
    \/ \E s \in DirLinks : RemoveFile(TheFs, s \o <<"f">>)
    \/ \E s \in DirLinks : RemoveDirectory(TheFs, s \o <<"n">>)
    \/ \E l \in FileLinks : SetContent(TheFs, l, "c2")
    \/ \E l \in FileLinks : ReadFile(TheFs, l)
    \/ OnEntry(TheFs, TheLink, "addDirectory", "n", 0)
    \/ OnEntry(TheFs, TheLink, "addFile", "x", "c2")
    \/ OnEntry(TheFs, TheLink, "addSymlink", "b",
               TargetPath(Abs(<<"p", "d", "f">>)))

SpecSym == InitSym /\ [][NextSym]_vars

\* s.getRealDirectory() / s.getRealFile() for the symlink at a path, on a
\* copy of the heap; None when there is no such symlink or it is broken
RealDir(h, link) ==
    Bind(Lookup(h, link, ""), LAMBDA g :
    IF g.v = None \/ h[g.v].kind # "dlink" THEN Ret(g.m, None)
    ELSE getRealDirectory(g.m, g.v)).v

RealFile(h, link) ==
    Bind(Lookup(h, link, ""), LAMBDA g :
    IF g.v = None \/ h[g.v].kind # "flink" THEN Ret(g.m, None)
    ELSE getRealFile(g.m, g.v)).v

\* the names of the children of a directory object
ChildNames(h, d) ==
    LET r == Do(Observer(h), "getOwnEntries", <<d>>)
    IN  {r.m.h[r.v[i]].name : i \in 1 .. Len(r.v)}

\* the call was made with a path that leads through the entry at link
Through(call, link) ==
    /\ Len(call.path) = Len(link) + 1
    /\ SubSeq(call.path, 1, Len(link)) = link

LastName(call) == call.path[Len(call.path)]

\* C11: a mutation through a symlink that is not broken acts on the real
\* target: an add of n through S leaves an entry named n in the real
\* directory, a remove through S takes it out of the real directory, and
\* setContent on a file symlink sets the content of the real file
SymlinkDelegates ==
    [][/\ (RealDir(heap, TheLink) # None /\ Through(last', TheLink)) =>
             /\ (/\ last'.op \in {"addDirectory", "addFile", "addSymlink"}
                 /\ last'.e # None) =>
                   LastName(last') \in ChildNames(heap', RealDir(heap, TheLink))
             /\ (last'.op \in {"removeFile", "removeDirectory"} /\ last'.ok) =>
                   /\ LastName(last') \in ChildNames(heap, RealDir(heap, TheLink))
                   /\ LastName(last') \notin
                          ChildNames(heap', RealDir(heap, TheLink))
       /\ (/\ last'.op = "setContent"
           /\ last'.path = TheFileLink
           /\ RealFile(heap, TheFileLink) # None) =>
             Do(Observer(heap'), "getContent",
                <<RealFile(heap, TheFileLink)>>).v = last'.content
      ]_vars

\* C12: a mutation through a broken symlink is a no-op: add through a broken
\* directory symlink returns absent and remove returns false, setContent on a
\* broken file symlink does nothing and its content reads as absent; nothing
\* is thrown, the tree is unchanged and no notification is emitted
BrokenLinkNoOp ==
    [][/\ (/\ Through(last', BrokenDirLink)
           /\ BrokenAt(heap, BrokenDirLink).v
           /\ last'.op \in {"addDirectory", "addFile",
                             "removeDirectory", "removeFile"}) =>
             /\ last'.ex = ""
             /\ last'.e = None
             /\ ~last'.ok
             /\ last'.ev = <<>>
             /\ Observe(heap', TheFs) = Observe(heap, TheFs)
       /\ (/\ last'.path = BrokenFileLink
           /\ BrokenAt(heap, BrokenFileLink).v
           /\ last'.op \in {"setContent", "getFile"}) =>
             /\ last'.ex = ""
             /\ last'.ev = <<>>
             /\ last'.op = "getFile" => last'.content = Undefined
             /\ ContentAt(heap', BrokenFileLink) = Undefined
             /\ Observe(heap', TheFs) = Observe(heap, TheFs)
      ]_vars

\* a file was added through the broken directory symlink after the content
\* of the broken file symlink had been set
BrokenAddWitness ==
    /\ last.op = "addFile"
    /\ Through(last, BrokenDirLink)
    /\ BrokenAt(heap, BrokenDirLink).v
    /\ BrokenAt(heap, BrokenFileLink).v
    /\ last.e = None
    /\ nops >= 2

(***************************************************************************)
(* Resolution of directory symlinks.  /p/d holds file f and /x (a child of *)
(* the root) holds file f; /l/a is a directory symlink to /p/d, /l/b one   *)
(* to /x and /l/n one to /l/a.  The symlinks are resolved, listed and      *)
(* retargeted while their targets, the ancestors of their targets and the  *)
(* symlinks themselves are removed and created again; a caller that kept a *)
(* removed directory adds files to it.                                     *)
(***************************************************************************)
ResolveCalls ==
    << <<"fsAddFile", <<TheFs, Abs(<<"p", "d", "f">>), "c1">> >>,
       <<"fsAddFile", <<TheFs, Abs(<<"x", "f">>), "c3">> >>,
       <<"fsAddSymlink", <<TheFs, Abs(<<"l", "a">>),
                           TargetPath(Abs(<<"p", "d">>))>> >>,
       <<"fsAddSymlink", <<TheFs, Abs(<<"l", "b">>),
                           TargetPath(Abs(<<"x">>))>> >>,
       <<"fsAddSymlink", <<TheFs, Abs(<<"l", "n">>),
                           TargetPath(Abs(<<"l", "a">>))>> >> >>

ResolveTree == Script(EmptyFs(TRUE), ResolveCalls, 1)

LinkA == <<"l", "a">>          \* symlink to /p/d
LinkB == <<"l", "b">>          \* symlink to /x, a child of the root
LinkN == <<"l", "n">>          \* symlink to the symlink /l/a
ResolveLinks  == {LinkA, LinkB, LinkN}
TargetDirs    == {<<"p", "d">>, <<"x">>}
RemovableDirs == TargetDirs \cup {<<"p">>, LinkA}

\* d.addFile(name, content) on a directory object the caller holds, attached
\* or not
EntryAddFile(d, name, content) ==
    /\ d \in 1 .. Len(heap)
    /\ heap[d].kind = "dir"
    /\ With(Do(Machine(heap), "addFile", <<d, Rel(<<name>>), content>>),
            LAMBDA r :
       Done(r.m, [Call("entry.addFile", heap[d].fsys,
                       PathOf(heap, d) \o <<name>>)
                     EXCEPT !.e = r.v, !.arg = <<d>>, !.content = content]))

InitResolve ==
    /\ heap = ResolveTree.h
    /\ last = NoCall
    /\ nops = 0

NextResolve ==
    \/ \E s \in ResolveLinks : IsBroken(TheFs, s)
    \/ \E s \in {LinkA, LinkB} : List(TheFs, s)
    \/ \E d \in RemovableDirs : RemoveDirectory(TheFs, d)
    \/ \E d \in TargetDirs : AddDirectory(TheFs, d, 0)
    \/ \E t \in TargetDirs : SetTarget(TheFs, LinkA, t)
    \/ \E d \in 1 .. Len(heap) :
          /\ heap[d].name \in {"d", "x"}
          /\ EntryAddFile(d, "n", "c2")

SpecResolve == InitResolve /\ [][NextResolve]_vars

\* the directory found by walking the target path of the symlink at a path
\* through the file system, following symlinks; None when there is none
Walk(h, link) ==
    Bind(Lookup(h, link, ""), LAMBDA g :
    IF g.v = None \/ h[g.v].kind # "dlink" THEN Ret(g.m, None)
    ELSE Bind(Do(g.m, "findTarget", <<TheFs, h[g.v].targetPath, {}>>),
              LAMBDA t :
         IF t.v # None /\ IsDir(t.m.h, t.v) THEN t ELSE Ret(t.m, None))).v

\* C13: for every directory symlink, isBroken is true iff walking its target
\* path yields no directory, and getRealDirectory returns the directory the
\* walk finds
BrokenIffUnresolvable ==
    \A s \in ResolveLinks :
        (EntryAt(heap, s) # None /\ heap[EntryAt(heap, s)].kind = "dlink") =>
            /\ Ok(BrokenAt(heap, s))
            /\ BrokenAt(heap, s).v = (Walk(heap, s) = None)
            /\ RealDir(heap, s) = Walk(heap, s)

\* the names of the children of the directory at a path, none when there is
\* no directory
NamesAt(h, path) ==
    IF Lookup(h, path, "directory").v = None THEN <<>> ELSE Listing(h, path)

\* C14: after the target path of directory symlink S has been changed to p,
\* the listing of S is the listing of the directory now at p (empty when
\* there is none), whatever S had resolved or listed before
RetargetRefreshesListing ==
    [][(/\ last'.op = "setTarget"
        /\ last'.ex = ""
        /\ last'.path = LinkA
        /\ heap[last'.e].targetPath # Abs(last'.arg)) =>
            /\ heap'[last'.e].targetPath = Abs(last'.arg)
            /\ Listing(heap', LinkA) = NamesAt(heap', last'.arg)
      ]_vars

\* the directory object whose children include the entry: the root directory
\* for an entry whose parent field is the file system
Holder(h, e) ==
    IF h[h[e].parent].kind = "fs" THEN h[h[e].parent].root ELSE h[e].parent

\* the entry has been taken out of the directory it was created in
Removed(h, e) == \A i \in 1 .. Len(h[Holder(h, e)].entries) :
                    h[Holder(h, e)].entries[i] # e

\* symlink object s holds none of its three subscriptions on directory d
\* and its parent
Unsubscribed(h, s, d) ==
    /\ \A i \in 1 .. Len(h[d].onAdded) : h[d].onAdded[i] # s
    /\ \A i \in 1 .. Len(h[d].onRemoved) : h[d].onRemoved[i][1] # s
    /\ \A i \in 1 .. Len(h[h[d].parent].onRemoved) :
          h[h[d].parent].onRemoved[i] # <<s, "P">>

\* C15: when removeDirectory removes the directory D that symlink S is
\* resolved to, S drops its subscriptions, its wrappers and its listing and
\* is unresolved and broken; a file later added to the removed D neither
\* changes the listing of a symlink nor makes a symlink emit
TargetRemovalTearsDown ==
    [][/\ (last'.op = "removeDirectory" /\ last'.ok) =>
             \A s \in ResolveLinks :
                 (/\ EntryAt(heap, s) # None
                  /\ heap[EntryAt(heap, s)].target # None
                  /\ heap[EntryAt(heap, s)].target = EntryAt(heap, last'.path)) =>
                     /\ heap'[EntryAt(heap, s)].target = None
                     /\ heap'[EntryAt(heap, s)].symLinks = {}
                     /\ ~heap'[EntryAt(heap, s)].symPop
                     /\ Unsubscribed(heap', EntryAt(heap, s),
                                     EntryAt(heap, last'.path))
                     /\ BrokenAt(heap', s).v
       /\ (last'.op = "entry.addFile" /\ Removed(heap, last'.arg[1])) =>
             /\ \A s \in ResolveLinks :
                   EntryAt(heap, s) # None =>
                       Listing(heap', s) = Listing(heap, s)
             /\ \A i \in 1 .. Len(last'.ev) :
                   heap'[last'.ev[i][1]].kind # "dlink"
      ]_vars

(***************************************************************************)
(* Adding and removing.  /a holds file f, directory d and file symlink l   *)
(* to /a/f.  Files, directories and symlinks are added and removed at      *)
(* paths that hold an entry of the same kind, of another kind or nothing,  *)
(* below the root, below /a, below a file and below a missing directory.   *)
(***************************************************************************)
AddRemoveCalls ==
    << <<"fsAddFile", <<TheFs, Abs(<<"a", "f">>), "c1">> >>,
       <<"fsAddDirectory", <<TheFs, Abs(<<"a", "d">>), 0>> >>,
       <<"fsAddSymlink", <<TheFs, Abs(<<"a", "l">>),
                           TargetPath(Abs(<<"a", "f">>))>> >> >>

AddRemoveTree == Script(EmptyFs(TRUE), AddRemoveCalls, 1)

TreeFilePaths == {<<"a", "f">>, <<"a", "d">>, <<"a", "n">>, <<"x">>,
                  <<"a", "f", "n">>}
TreeDirPaths  == {<<"a", "d">>, <<"a", "f">>, <<"a", "n">>, <<"x">>}
TreeLinkPaths == {<<"a", "l">>, <<"a", "f">>, <<"a", "n">>, <<"x">>}
TreeGonePaths == {<<"a", "f">>, <<"a", "d">>, <<"a", "n">>, <<"x">>,
                  <<"p", "n">>}

InitAddRemove ==
    /\ heap = AddRemoveTree.h
    /\ last = NoCall
    /\ nops = 0

NextAddRemove ==
    \/ \E p \in TreeFilePaths : AddFile(TheFs, p, "c2")
    \/ \E p \in TreeDirPaths : AddDirectory(TheFs, p, 0)
    \/ \E p \in TreeLinkPaths : AddSymlinkTo(TheFs, p, <<"a", "f">>)
    \/ \E p \in TreeGonePaths : RemoveFile(TheFs, p)
    \/ \E p \in TreeDirPaths : RemoveDirectory(TheFs, p)

SpecAddRemove == InitAddRemove /\ [][NextAddRemove]_vars

\* the directory object a path's last component is looked up in: the root
\* directory for a path of one component; None when there is none
DirOf(h, path) ==
    IF Len(path) = 1 THEN h[TheFs].root
    ELSE Lookup(h, Parent(path), "directory").v

\* the children of a directory object, in order
ChildrenOf(h, d) == Do(Observer(h), "getOwnEntries", <<d>>).v

\* the entry is of the kind the add operation asks for: a file, a directory,
\* or the symlink class that matches the target entry t
OfKind(h, e, op, t) ==
    CASE op = "addFile"      -> IsFile(h, e)
      [] op = "addDirectory" -> IsDir(h, e)
      [] op = "addSymlink"   ->
            h[e].kind = (IF IsFile(h, t) THEN "flink" ELSE "dlink")

\* C16: an add on an unfrozen directory returns the entry of the requested
\* kind that exists at the path and adds no child (so an add repeated at
\* once returns the entry the first add returned); creates an entry and
\* appends it as the last child when none exists; returns absent and leaves
\* the directory unchanged when an entry of another kind exists
AddReturnsOrCreates ==
    [][(/\ last'.op \in {"addFile", "addDirectory", "addSymlink"}
        /\ DirOf(heap, last'.path) # None
        /\ heap[DirOf(heap, last'.path)].kind \in {"dir", "root"}
        /\ last'.op = "addSymlink" => EntryAt(heap, last'.arg) # None) =>
            /\ last'.ex = ""
            /\ IF EntryAt(heap, last'.path) = None
               THEN /\ last'.e # None
                    /\ OfKind(heap', last'.e, last'.op,
                              EntryAt(heap, last'.arg))
                    /\ ChildrenOf(heap', DirOf(heap, last'.path)) =
                          Append(ChildrenOf(heap, DirOf(heap, last'.path)),
                                 last'.e)
               ELSE /\ last'.e = IF OfKind(heap, EntryAt(heap, last'.path),
                                           last'.op, EntryAt(heap, last'.arg))
                                 THEN EntryAt(heap, last'.path) ELSE None
                    /\ ChildrenOf(heap', DirOf(heap, last'.path)) =
                          ChildrenOf(heap, DirOf(heap, last'.path))
            /\ (/\ last.op = last'.op
                /\ last.path = last'.path
                /\ last.e # None) =>
                  /\ last'.e = last.e
                  /\ ChildrenOf(heap', DirOf(heap, last'.path)) =
                        ChildrenOf(heap, DirOf(heap, last'.path))
      ]_vars

\* the kind a remove operation asks for
WantedKind(op) == IF op = "removeFile" THEN "file" ELSE "directory"

\* the sequence without its element x
Without(seq, x) == SelectSeq(seq, LAMBDA y : y # x)

\* C17: removeFile / removeDirectory on an unfrozen tree return true iff an
\* entry of the matching kind exists at the path; when true that entry, and
\* no other, is detached and a lookup of the path is absent; when false
\* nothing is thrown and the tree is unchanged
RemoveIffPresent ==
    [][last'.op \in {"removeFile", "removeDirectory"} =>
          /\ last'.ex = ""
          /\ last'.ok = (Lookup(heap, last'.path, WantedKind(last'.op)).v # None)
          /\ last'.ok =>
                /\ EntryAt(heap', last'.path) = None
                /\ ChildrenOf(heap', DirOf(heap, last'.path)) =
                      Without(ChildrenOf(heap, DirOf(heap, last'.path)),
                              EntryAt(heap, last'.path))
          /\ ~last'.ok => Observe(heap', TheFs) = Observe(heap, TheFs)
      ]_vars

(***************************************************************************)
(* Typed lookups, with and without the follow-symlinks option, on a tree   *)
(* whose symlink targets are replaced by entries of the other kind.        *)
(***************************************************************************)
\* /a/f = "c1", /a/d, /a/l -> /a/f, /a/k -> /a/d
LookupCalls ==
    << <<"fsAddFile", <<TheFs, Abs(<<"a", "f">>), "c1">> >>,
       <<"fsAddDirectory", <<TheFs, Abs(<<"a", "d">>), 0>> >>,
       <<"fsAddSymlink", <<TheFs, Abs(<<"a", "l">>), TargetPath(Abs(<<"a", "f">>))>> >>,
       <<"fsAddSymlink", <<TheFs, Abs(<<"a", "k">>), TargetPath(Abs(<<"a", "d">>))>> >> >>

LookupTree == Script(EmptyFs(TRUE), LookupCalls, 1)

LookupPaths == {<<"a", "l">>, <<"a", "k">>, <<"a", "k", "n">>}

\* fs.getFile(path, { followSymlinks }) / fs.getDirectory(path, { followSymlinks })
GetEntryAs(fs, path, kind, follow) ==
    With(Do(Machine(heap), "fsGetEntry", <<fs, Abs(path), kind, follow>>),
         LAMBDA g :
    Done(g.m, [Call(IF kind = "file" THEN "getFile" ELSE "getDirectory", fs, path)
                 EXCEPT !.e = IF Ok(g) THEN g.v ELSE None,
                        !.arg = IF follow THEN <<"followSymlinks">> ELSE <<>>]))

InitLookup ==
    /\ heap = LookupTree.h
    /\ last = NoCall
    /\ nops = 0

NextLookup ==
    \/ \E p \in LookupPaths, follow \in BOOLEAN : GetEntryAs(TheFs, p, "file", follow)
    \/ \E p \in LookupPaths, follow \in BOOLEAN : GetEntryAs(TheFs, p, "directory", follow)
    \/ RemoveFile(TheFs, <<"a", "f">>)
    \/ RemoveDirectory(TheFs, <<"a", "d">>)
    \/ AddDirectory(TheFs, <<"a", "f">>, 0)
    \/ AddFile(TheFs, <<"a", "d">>, "c2")
    \/ AddFile(TheFs, <<"a", "d", "n">>, "c2")

SpecLookup == InitLookup /\ [][NextLookup]_vars

\* C18: getFile never returns a directory and getDirectory never returns a
\* file, with or without the follow-symlinks option, and both are absent
\* when the path holds no entry
KindSafeLookup ==
    [][last'.op \in {"getFile", "getDirectory"} =>
          /\ last'.e # None =>
                IF last'.op = "getFile" THEN IsFile(heap', last'.e)
                                        ELSE IsDir(heap', last'.e)
          /\ EntryAt(heap, last'.path) = None => last'.e = None
      ]_vars

(***************************************************************************)
(* The exists property of entries, read while entries are removed and      *)
(* added again and the current directory changes.                          *)
(***************************************************************************)
\* /a/d/f = "c1", /a/l -> /a/d/f
ExistsCalls ==
    << <<"fsAddFile", <<TheFs, Abs(<<"a", "d", "f">>), "c1">> >>,
       <<"fsAddSymlink", <<TheFs, Abs(<<"a", "l">>),
                           TargetPath(Abs(<<"a", "d", "f">>))>> >> >>

ExistsTree == Script(EmptyFs(TRUE), ExistsCalls, 1)

\* the objects an add operation has created
Created(h) == {e \in 1 .. Len(h) : h[e].kind \in {"file", "dir", "flink"}}

\* e.exists, for an entry object the caller kept
Exists(e) ==
    With(Do(Machine(heap), "exists", <<e>>), LAMBDA r :
    Done(r.m, [Call("exists", heap[e].fsys, <<>>) EXCEPT
                  !.e = e, !.ok = Ok(r) /\ r.v]))

InitExists ==
    /\ heap = ExistsTree.h
    /\ last = NoCall
    /\ nops = 0

NextExists ==
    \/ \E e \in Created(heap) : Exists(e)
    \/ \E p \in {<<"a">>, <<>>} : ChangeDirectory(TheFs, p)
    \/ \E p \in {<<"a", "d">>, <<"x">>} : AddDirectory(TheFs, p, 0)
    \/ AddFile(TheFs, <<"a", "d", "f">>, "c2")
    \/ RemoveDirectory(TheFs, <<"a", "d">>)
    \/ \E p \in {<<"a", "d", "f">>, <<"a", "l">>} : RemoveFile(TheFs, p)

SpecExists == InitExists /\ [][NextExists]_vars

\* the entry is a child of the directory it was created in, and so is every
\* directory above it, up to the root
RECURSIVE Attached(_, _)
Attached(h, e) ==
    IF h[e].kind \in {"fs", "root"} THEN TRUE
    ELSE /\ ~Removed(h, e)
         /\ Attached(h, Holder(h, e))

\* C19: e.exists is true while e and all its ancestors are attached, for
\* children of the root too and whatever the current directory; it is false
\* once e or an ancestor was removed, also after a new entry of the same
\* name was added in its place
ExistsTracksAttachment ==
    [][last'.op = "exists" =>
          /\ last'.ex = ""
          /\ last'.ok = Attached(heap, last'.e)
      ]_vars

(***************************************************************************)
(* Freezing and later materialization: the tree (or a clone of it) is      *)
(* frozen, as a whole or one directory, and then listed and looked up, so  *)
(* that children are created from the resolver, from a shadow directory    *)
(* and as wrappers of a directory symlink.                                 *)
(***************************************************************************)
MaterializeDirs  == {<<"d">>, <<"d", "b">>, <<"a", "l">>, <<"a", "l", "b">>}
MaterializeFiles == {<<"d", "f">>, <<"a", "l", "f">>}
ShadowDirs       == {<<"d">>, <<"a">>}

InitMaterialize ==
    /\ heap = BaseTree.h
    /\ last = NoCall
    /\ nops = 0

NextMaterialize ==
    \/ MakeReadOnly(TheFs)
    \/ \E p \in ShadowDirs : MakeEntryReadOnly(TheFs, p)
    \/ \E p \in MaterializeDirs : List(TheFs, p)
    \/ \E p \in MaterializeFiles : ReadFile(TheFs, p)
    \/ /\ FileSystems = {TheFs}
       /\ Clone(TheFs)
    \/ /\ FileSystems # {TheFs}
       /\ MakeReadOnly(TheClone)
    \/ /\ FileSystems # {TheFs}
       /\ \E p \in ShadowDirs : List(TheClone, p)

SpecMaterialize == InitMaterialize /\ [][NextMaterialize]_vars

\* the entry, or a container above it up to its file system, is frozen
RECURSIVE FrozenAbove(_, _)
FrozenAbove(h, e) ==
    \/ h[e].ro
    \/ /\ h[e].kind # "fs"
       /\ FrozenAbove(h, h[e].parent)

\* the entries a listing or a lookup returned
Returned(call) ==
    {call.arg[i] : i \in 1 .. Len(call.arg)} \cup ({call.e} \ {None})

\* C20: every entry a listing or a lookup returns beneath a frozen directory
\* or file system is read-only, whether it was materialized from a
\* resolver, from a shadow directory or as a wrapper inside a directory
\* symlink
MaterializedFrozen ==
    [][last'.op \in {"getEntries", "getFile"} =>
          \A e \in Returned(last') :
              FrozenAbove(heap', heap'[e].parent) => heap'[e].ro
      ]_vars

(***************************************************************************)
(* The read-only flag over time: the tree is frozen, as a whole or one     *)
(* directory, more than once, cloned, listed and mutated.                  *)
(***************************************************************************)
\* fs.makeReadOnly() on a file system that is read-only already
FreezeAgain(fs) ==
    /\ heap[fs].ro
    /\ Done(Do(Machine(heap), "makeReadOnly", <<fs>>).m,
            [Call("makeReadOnly", fs, <<>>) EXCEPT !.ok = TRUE])

NextMonotonic ==
    \/ \E fs \in FileSystems : MakeReadOnly(fs)
    \/ \E fs \in FileSystems : FreezeAgain(fs)
    \/ \E p \in ShadowDirs : MakeEntryReadOnly(TheFs, p)
    \/ /\ FileSystems = {TheFs}
       /\ Clone(TheFs)
    \/ \E fs \in FileSystems, p \in {<<"d">>, <<"a", "l">>} : List(fs, p)
    \/ \E p \in {<<"a", "n">>, <<"d", "n">>} : AddFile(TheFs, p, "c2")
    \/ \E fs \in FileSystems : SetContent(fs, <<"a", "f">>, "c2")
    \/ RemoveFile(TheFs, <<"a", "f">>)

SpecMonotonic == InitMaterialize /\ [][NextMonotonic]_vars

\* the objects whose isReadOnly is true
ReadOnlySet(h) == {e \in 1 .. Len(h) : h[e].ro}

\* the object makeReadOnly was called on
Frozen(call) == IF call.op = "makeReadOnly" THEN call.fs ELSE call.e

\* C21: an entry that is read-only is read-only in every later state,
\* whatever is called; makeReadOnly on an entry that is already read-only
\* changes nothing
ReadOnlyMonotonic ==
    [][/\ ReadOnlySet(heap) \subseteq ReadOnlySet(heap')
       /\ (/\ last'.op \in {"makeReadOnly", "entry.makeReadOnly"}
           /\ heap[Frozen(last')].ro) =>
             /\ ReadOnlySet(heap') = ReadOnlySet(heap)
             /\ \A fs \in FileSystems : Observe(heap', fs) = Observe(heap, fs)
      ]_vars

\* makeReadOnly was called a second time on a frozen file system that has
\* been cloned or listed in between
SecondFreezeWitness ==
    /\ last.op = "makeReadOnly"
    /\ last.ok
    /\ last.ex = ""
    /\ \E e \in 1 .. Len(heap) : heap[e].ro /\ heap[e].kind = "file"
    /\ \E e \in 1 .. Len(heap) : ~heap[e].ro /\ heap[e].kind # "fs"

(***************************************************************************)
(* File content: files created by addFile (with a string and with a        *)
(* content resolver that yields nothing), by the directory resolver and by *)
(* cloning are read and written, in the original and in the clone.         *)
(***************************************************************************)
\* the base tree and /a/n, whose content is a resolver the store has
\* nothing for
ContentCalls ==
    Append(BaseCalls, <<"fsAddFile", <<TheFs, Abs(<<"a", "n">>), ResolverFn>> >>)

ContentTree == Script(EmptyFs(TRUE), ContentCalls, 1)

ContentReadPaths  == {<<"a", "f">>, <<"d", "f">>, <<"a", "n">>}
ContentWritePaths == {<<"a", "f">>, <<"d", "f">>}
ContentValues     == {"c2", Undefined}

InitContent ==
    /\ heap = ContentTree.h
    /\ last = NoCall
    /\ nops = 0

NextContent ==
    \/ \E fs \in FileSystems, p \in ContentReadPaths : ReadFile(fs, p)
    \/ \E fs \in FileSystems, p \in ContentWritePaths, v \in ContentValues :
          SetContent(fs, p, v)
    \/ /\ FileSystems = {TheFs}
       /\ Clone(TheFs)

SpecContent == InitContent /\ [][NextContent]_vars

\* what f.getContent() returns, computed on a copy of the heap
ContentOf(h, f) == Do(Observer(h), "getContent", <<f>>).v

\* C22: setContent(v) on an unfrozen file stores v, the absent value
\* included: the next getContent() returns v and consults neither a content
\* resolver nor a shadow file, for files made by addFile, by a resolver and
\* by cloning
SetContentStores ==
    [][(last'.op = "setContent" /\ ~heap'[last'.e].ro) =>
          /\ last'.ex = ""
          /\ ContentOf(heap', last'.e) = last'.content
          /\ heap'[last'.e].resolver = 0
          /\ heap'[last'.e].content = Undefined => heap'[last'.e].shadow = None
      ]_vars

\* the plain files of the heap
Files(h) == {f \in 1 .. Len(h) : h[f].kind = "file"}

\* the file still has a content resolver or a shadow file to consult
Pending(h, f) == h[f].resolver # 0 \/ h[f].shadow # None

\* C23: the content resolver or shadow of a file is consulted at most once,
\* also when it yields nothing: a getContent() that consults it leaves
\* nothing to consult, what was consulted never comes back, a store resolver
\* is asked at most once per file, and a getContent() of a file with nothing
\* left to consult returns the cached value and changes nothing
ResolvedOnce ==
    [][/\ \A f \in Files(heap) : Pending(heap', f) => Pending(heap, f)
       /\ \A f \in Files(heap') : heap'[f].consults <= 1
       /\ (last'.op = "getFile" /\ last'.e # None /\ heap'[last'.e].kind = "file") =>
             /\ heap'[last'.e].content = Undefined => ~Pending(heap', last'.e)
             /\ last'.content = heap'[last'.e].content
             /\ (last'.e <= Len(heap) /\ ~Pending(heap, last'.e)) =>
                   /\ last'.content = heap[last'.e].content
                   /\ heap' = heap
      ]_vars

\* the file whose resolver yields nothing has been read, directly and
\* through the clone, and its resolver was asked once
ReadAbsentWitness ==
    /\ last.op = "getFile"
    /\ last.path = <<"a", "n">>
    /\ last.fs = TheFs
    /\ last.content = Undefined
    /\ heap[last.e].consults = 1
    /\ \E f \in Files(heap) : /\ heap[f].fsys # TheFs
                              /\ heap[f].name = "n"
                              /\ ~Pending(heap, f)

(***************************************************************************)
(* A clone and its original side by side: entries of the clone are listed, *)
(* read and written, and the original is changed afterwards.               *)
(***************************************************************************)
ShadowTree == Script(EmptyFs(TRUE), Append(ContentCalls, <<"clone", <<TheFs>> >>), 1)

TheFile == <<"a", "f">>

InitShadow ==
    /\ heap = ShadowTree.h
    /\ last = NoCall
    /\ nops = 0

NextShadow ==
    \/ List(TheClone, <<"a">>)
    \/ ReadFile(TheClone, TheFile)
    \/ \E v \in ContentValues : SetContent(TheClone, TheFile, v)
    \/ AddFile(TheClone, <<"a", "x">>, "c2")
    \/ \E p \in {<<"a", "x">>, <<"a", "b">>} : AddFile(TheFs, p, "c3")
    \/ RemoveFile(TheFs, TheFile)
    \/ SetContent(TheFs, TheFile, "c3")

SpecShadow == InitShadow /\ [][NextShadow]_vars

\* the files and directories of the clone
CloneEntries(h) ==
    {c \in 1 .. Len(h) : h[c].fsys # TheFs /\ h[c].kind \in {"file", "dir", "root"}}

\* the clone's entry has been listed or mutated (a directory), read or
\* written (a file); call is the call made last
Touched(h, call, c) ==
    IF h[c].kind = "file"
    THEN \/ h[c].shadow = None
         \/ h[c].content # Undefined
         \/ call.op = "setContent" /\ call.e = c
    ELSE h[c].populated

\* what the entry itself shows: the content of a file, the names of a directory
View(h, c) ==
    IF h[c].kind = "file" THEN <<ContentOf(h, c)>>
    ELSE Bind(Do(Observer(h), "getOwnEntries", <<c>>), LAMBDA l :
         Ret(l.m, NamesOf(l.m.h, l.v))).v

\* C24: once an entry of the clone has been listed or mutated (directory),
\* read or written with any value (file), no add, remove or setContent on
\* the original changes what that entry shows
TouchedIsIndependent ==
    [][(last'.fs = TheFs /\ last'.op \in MutationOps) =>
          \A c \in CloneEntries(heap) :
             Touched(heap, last, c) => View(heap', c) = View(heap, c)
      ]_vars

(***************************************************************************)
(* Laziness of clone: the tree is cloned, and directories and files of the *)
(* original and of the clone are visited one path at a time.               *)
(***************************************************************************)
VisitDirs  == {<<"d">>, <<"d", "b">>, <<"a">>}
VisitFiles == {<<"d", "f">>, <<"d", "b", "a">>, <<"a", "f">>}

NextLazy ==
    \/ /\ FileSystems = {TheFs}
       /\ Clone(TheFs)
    \/ \E fs \in FileSystems, p \in VisitDirs : List(fs, p)
    \/ \E fs \in FileSystems, p \in VisitFiles : ReadFile(fs, p)

SpecLazy == InitMaterialize /\ [][NextLazy]_vars

\* s is an initial part of t
IsPrefix(s, t) == Len(s) <= Len(t) /\ s = SubSeq(t, 1, Len(s))

\* the step has populated directory e, or resolved the content of file e
Materialized(h, h2, e) ==
    IF e <= Len(h)
    THEN \/ h2[e].populated /\ ~h[e].populated
         \/ h2[e].content # h[e].content
         \/ h2[e].consults # h[e].consults
    ELSE h2[e].populated \/ h2[e].content # Undefined \/ h2[e].consults # 0

TheClass == 1

\* the class before its first use, on a host whose file names are case
\* sensitive or not (io.useCaseSensitiveFileNames())
ClassOf(host) == [NoNode EXCEPT !.kind = "class", !.fsys = TheClass,
                                !.parent = TheClass, !.cs = host]

\* the static field that memoizes the instance of a policy
BuiltLocalFor(h, cs) ==
    IF cs THEN h[TheClass].builtLocalCS ELSE h[TheClass].builtLocalCI

\* VirtualFileSystem.getBuiltLocal(cs); the call is marked when the policy
\* had been requested before
GetBuiltLocal(cs) ==
    With(Do(Machine(heap), "getBuiltLocal", <<TheClass, cs>>), LAMBDA r :
    Done(r.m, [Call("getBuiltLocal", TheClass, <<>>) EXCEPT
                  !.e = r.v, !.ok = cs,
                  !.arg = IF BuiltLocalFor(heap, cs) # None
                          THEN <<"memoized">> ELSE <<>>]))

BuiltPaths == {<<"p", "d", "b">>, <<"p", "a">>}

InitBuiltLocal ==
    /\ heap \in {<<ClassOf(host)>> : host \in BOOLEAN}
    /\ last = NoCall
    /\ nops = 0

NextBuiltLocal ==
    \/ \E cs \in BOOLEAN : GetBuiltLocal(cs)
    \/ \E fs \in FileSystems : Clone(fs)
    \/ \E fs \in FileSystems, p \in BuiltPaths : List(fs, p)
    \/ \E fs \in FileSystems : AddFile(fs, <<"p", "d", "n">>, "c2")

SpecBuiltLocal == InitBuiltLocal /\ [][NextBuiltLocal]_vars

\* C26: getBuiltLocal is memoized per policy: every call for a policy
\* returns the same file system, which is frozen and has the policy asked
\* for, in whatever order the two policies are requested
BuiltLocalMemoized ==
    [][/\ \A cs \in BOOLEAN :
            BuiltLocalFor(heap, cs) # None =>
               BuiltLocalFor(heap', cs) = BuiltLocalFor(heap, cs)
       /\ last'.op = "getBuiltLocal" =>
            /\ last'.ex = ""
            /\ last'.e = BuiltLocalFor(heap', last'.ok)
            /\ heap'[last'.e].kind = "fs"
            /\ heap'[last'.e].ro
            /\ heap'[last'.e].cs = last'.ok
      ]_vars

\* both policies have been requested and one of them again
BothPoliciesWitness ==
    /\ last.op = "getBuiltLocal"
    /\ last.arg = <<"memoized">>
    /\ BuiltLocalFor(heap, TRUE) # None
    /\ BuiltLocalFor(heap, FALSE) # None
    /\ BuiltLocalFor(heap, TRUE) # BuiltLocalFor(heap, FALSE)

(***************************************************************************)
(* A clone of a frozen file system, as a test takes it from getBuiltLocal: *)
(* the clone's current directory is changed and the clone is written to.   *)
(***************************************************************************)
FrozenCloneTree ==
    Script(EmptyFs(TRUE),
           BaseCalls \o << <<"makeReadOnly", <<TheFs>> >>, <<"clone", <<TheFs>> >> >>, 1)

CloneAddPaths     == {<<"a", "n">>, <<"d", "n">>, <<"a", "l", "n">>}
CloneWritePaths   == {<<"a", "f">>, <<"d", "f">>, <<"a", "l", "f">>}
CloneRemovePaths  == {<<"a", "f">>, <<"d", "f">>}

InitFrozenClone ==
    /\ heap = FrozenCloneTree.h
    /\ last = NoCall
    /\ nops = 0

NextFrozenClone ==
    \/ ChangeDirectory(TheClone, <<"a">>)
    \/ \E p \in CloneAddPaths : AddFile(TheClone, p, "c2")
    \/ AddSymlinkTo(TheClone, <<"a", "b">>, <<"a", "f">>)
    \/ \E p \in CloneRemovePaths : RemoveFile(TheClone, p)
    \/ RemoveDirectory(TheClone, <<"d", "b">>)
    \/ \E p \in CloneWritePaths : SetContent(TheClone, p, "c2")

SpecFrozenClone == InitFrozenClone /\ [][NextFrozenClone]_vars

\* the objects of file system fs
ObjectsOf(h, fs) == {e \in 1 .. Len(h) : h[e].fsys = fs}

\* C27: a clone of a frozen file system is not frozen: changeDirectory,
\* adds, removes and setContent on the clone raise nothing, also on entries
\* materialized from frozen entries of the original, and the original stays
\* frozen and shows what it showed
FrozenCloneWritable ==
    [][(last'.fs = TheClone /\ last'.op \in MutationOps) =>
          /\ last'.ex = ""
          /\ ~heap'[TheClone].ro
          /\ \A e \in ObjectsOf(heap', TheFs) : heap'[e].ro
          /\ Observe(heap', TheFs) = Observe(heap, TheFs)
          /\ heap'[TheFs].cwd = heap[TheFs].cwd
      ]_vars

\* a file the clone materialized from the frozen original's resolver-backed
\* directory has been written in the clone
CloneWroteWitness ==
    /\ last.op = "setContent"
    /\ last.fs = TheClone
    /\ last.path = <<"d", "f">>
    /\ last.ex = ""
    /\ ContentOf(heap, last.e) = "c2"
    /\ heap[TheFs].ro
    /\ ContentAt(heap, <<"d", "f">>) = "s1"

(***************************************************************************)
(* Failures on a tree in which nothing is frozen: lookups, listings, adds, *)
(* removes, reads and writes on paths that are missing, of the wrong kind  *)
(* or behind a broken link, with symlinks retargeted to a missing path, to *)
(* each other and to a path beneath themselves.                            *)
(***************************************************************************)
Beneath == TheLink \o <<"x">>         \* a path that walks through the link
Missing == <<"p", "n">>

ProbeFiles == {TheLink \o <<"f">>, TheBack \o <<"f">>, Missing \o <<"f">>,
               <<"p", "d", "f", "x">>}

NextThrow ==
    \/ \E t \in {Beneath, TheBack, Missing} : SetTarget(TheFs, TheLink, t)
    \/ \E p \in {TheLink, TheBack} : IsBroken(TheFs, p)
    \/ \E p \in {TheLink, TheBack, Missing} : List(TheFs, p)
    \/ \E p \in ProbeFiles : ReadFile(TheFs, p)
    \/ \E p \in {Beneath, Missing \o <<"f">>} : AddFile(TheFs, p, "c2")
    \/ \E p \in {Beneath, Missing} : RemoveFile(TheFs, p)
    \/ \E p \in {<<"p", "d", "f">>, Missing} : RemoveDirectory(TheFs, p)
    \/ /\ FileSystems = {TheFs}
       /\ Clone(TheFs)

SpecThrow == InitLink /\ [][NextThrow]_vars

\* C28: while nothing is frozen no operation raises, whatever its input:
\* not found, wrong kind, broken link and invalid path come back as absent
\* or false
OnlyFrozenThrows ==
    [][ReadOnlySet(heap) = {} => last'.ex = ""]_vars

(***************************************************************************)
(* Invalid paths: the add methods of a directory are called with paths     *)
(* that begin or end with the relative-parent marker or contain an empty   *)
(* component, on the directory /p and through the directory symlink /p/a.  *)
(***************************************************************************)
Marker == ".."

MarkedPaths ==
    {Abs(<<Marker, "x">>), Rel(<<Marker, "x">>), Abs(<<"x", Marker>>),
     Abs(<<"x", "", "n">>), Abs(<<"x", "n">>)}

AddMethods == {"addDirectory", "addFile", "addSymlink"}

\* the arguments of d.addDirectory(path), d.addFile(path, "c2") and
\* d.addSymlink(path, "/p/d/f")
AddArgs(method, d, path) ==
    CASE method = "addDirectory" -> <<d, path, 0>>
      [] method = "addFile"      -> <<d, path, "c2">>
      [] method = "addSymlink"   -> <<d, path, TargetPath(Abs(<<"p", "d", "f">>))>>

\* d = fs.getDirectory(dir); d.addDirectory(path) / d.addFile(path, content)
\* / d.addSymlink(path, target)
AddIn(method, fs, dir, path) ==
    With(Do(Machine(heap), "fsGetEntry", <<fs, Abs(dir), "directory", FALSE>>),
         LAMBDA g :
    /\ Ok(g) /\ g.v # None
    /\ With(Do(g.m, method, AddArgs(method, g.v, path)), LAMBDA r :
       Done(r.m, [Call(method, fs, dir) EXCEPT !.e = r.v, !.arg = parse(path)])))

NextInvalid ==
    \/ \E method \in AddMethods, path \in MarkedPaths :
            AddIn(method, TheFs, <<"p">>, path)
    \/ \E path \in MarkedPaths : AddIn("addFile", TheFs, TheLink, path)
    \/ \E p \in {<<"p">>, <<"p", "x">>, TheLink} : List(TheFs, p)
    \/ \E p \in {<<"p", "x", "n">>, <<"p", "d", "n">>} : RemoveFile(TheFs, p)

SpecInvalid == InitLink /\ [][NextInvalid]_vars

\* a path of more than one component that begins or ends with the marker or
\* has an empty component
Invalid(p) ==
    /\ Len(p.segs) > 1
    /\ \/ p.segs[1] = Marker
       \/ p.segs[Len(p.segs)] = Marker
       \/ \E i \in 1 .. Len(p.segs) : p.segs[i] = ""

\* C29: an add with an invalid path returns absent, raises nothing and
\* creates no entry
InvalidRejected ==
    [][(last'.op \in AddMethods /\ last'.arg \in {parse(p) : p \in {q \in MarkedPaths : Invalid(q)}})
         => /\ last'.ex = ""
            /\ last'.e = None
            /\ Len(heap') = Len(heap)]_vars

(***************************************************************************)
(* The mirrored listing: S = /p/a targets D = /p/d.  S is resolved, listed *)
(* and read through while files and directories are added to and removed   *)
(* from D, directly and through S.                                         *)
(***************************************************************************)
TheChild == TheDir \o <<"n">>     \* a directory child of D

NextMirror ==
    \/ IsBroken(TheFs, TheLink)
    \/ \E p \in {TheLink, TheDir} : List(TheFs, p)
    \/ \E d \in {TheLink, TheDir} : AddFile(TheFs, d \o <<"x">>, "c2")
    \/ AddDirectory(TheFs, TheChild, 0)
    \/ \E d \in {TheLink, TheDir}, n \in LinkFileNames :
            RemoveFile(TheFs, d \o <<n>>)
    \/ RemoveDirectory(TheFs, TheChild)
    \/ \E n \in LinkFileNames : ReadFile(TheFs, TheLink \o <<n>>)

SpecMirror == InitLink /\ [][NextMirror]_vars

\* s = fs.getDirectory(S).getEntries(), the same call once more, and
\* d = fs.getDirectory(D).getEntries(), on a copy of the heap
Mirror(h) ==
    Bind(Lookup(h, TheLink, "directory"), LAMBDA g :
    Bind(Do(g.m, "getOwnEntries", <<g.v>>), LAMBDA s :
    Bind(Do(s.m, "getOwnEntries", <<g.v>>), LAMBDA again :
    Bind(Do(again.m, "fsGetEntry", <<TheFs, Abs(TheDir), "directory", FALSE>>),
         LAMBDA t :
    Bind(Do(t.m, "getOwnEntries", <<t.v>>), LAMBDA d :
    Ret(d.m, [s |-> s.v, again |-> again.v, d |-> d.v, h |-> d.m.h])))))).v

\* the wrapper w stands for the child c: same name, a directory symlink for
\* a directory and a file symlink for a file
Wraps(h, w, c) ==
    /\ h[w].name = h[c].name
    /\ h[w].kind = (IF IsDir(h, c) THEN "dlink" ELSE "flink")

OneToOne(v) ==
    /\ Len(v.s) = Len(v.d)
    /\ \A i, j \in DOMAIN v.s : i # j => v.s[i] # v.s[j]
    /\ \A i, j \in DOMAIN v.s : i # j => v.h[v.s[i]].name # v.h[v.s[j]].name
    /\ \A i \in DOMAIN v.d : \E j \in DOMAIN v.s : Wraps(v.h, v.s[j], v.d[i])
    /\ v.again = v.s

\* C30: in every state the listing of S, when S is not broken, corresponds
\* one to one to the children of D: same names, same count, no duplicates,
\* a wrapper of the kind of the child, the same wrappers on every listing
MirrorConsistent ==
    (~BrokenAt(heap, TheLink).v) => OneToOne(Mirror(heap))

(***************************************************************************)
(* Termination of symlink resolution: the target of S = /p/a is set to S   *)
(* itself, to B = /p/b (which targets S) and to a path beneath S, and the  *)
(* symlinks are then resolved.                                             *)
(***************************************************************************)
LoopTargets == {TheLink, TheBack, Beneath}

NextTerminate ==
    \/ \E t \in LoopTargets : SetTarget(TheFs, TheLink, t)
    \/ SetTarget(TheFs, TheBack, TheBack)
    \/ \E p \in {TheLink, TheBack} : IsBroken(TheFs, p)
    \/ \E p \in {TheLink, TheBack} : GetEntryAs(TheFs, p, "directory", TRUE)
    \/ \E p \in {TheLink \o <<"f">>, TheBack \o <<"f">>} :
            GetEntryAs(TheFs, p, "file", TRUE)
    \/ \E p \in {TheLink, TheBack} : List(TheFs, p)

SpecTerminate == InitLink /\ [][NextTerminate]_vars

\* the target path of the symlink at a path
TargetOf(h, link) == h[EntryAt(h, link)].targetPath.segs

\* the symlink at a path cannot be resolved: following target paths from it
\* comes back to a symlink already met, or walks through one
Looping(h, link) ==
    \/ TargetOf(h, link) \in {link, Beneath}
    \/ \E other \in {TheLink, TheBack} :
          /\ TargetOf(h, link) = other
          /\ TargetOf(h, other) \in {link, other, Beneath}

\* C31: resolving a symlink returns, whatever the targets are, and reports
\* a symlink that leads back to a symlink already met as broken
ResolutionTerminates ==
    [][/\ last'.op \in {"isBroken", "getFile", "getDirectory", "getEntries"}
          => last'.ex = ""
       /\ (last'.op = "isBroken" /\ Looping(heap, last'.path)) => last'.ok
      ]_vars

(***************************************************************************)
(* Sibling names: directories, files and symlinks are added and removed    *)
(* under names that differ in case only, directly and through the          *)
(* directory symlink /a/l, in the tree and in its clone.                   *)
(***************************************************************************)
SiblingFiles == {<<"a", "F">>, <<"d", "F">>, <<"a", "l", "x">>, <<"d", "x">>}
SiblingDirs  == {<<"A">>, <<"d", "B">>, <<"a", "l", "x">>}
SiblingLinks == {<<"a", "L">>, <<"a", "l", "x">>, <<"d", "x">>}

NextSiblings ==
    \/ \E fs \in FileSystems, p \in SiblingFiles : AddFile(fs, p, "c2")
    \/ \E p \in SiblingDirs : AddDirectory(TheFs, p, 0)
    \/ \E p \in SiblingLinks : AddSymlinkTo(TheFs, p, <<"a", "f">>)
    \/ \E p \in {<<"a", "f">>, <<"d", "x">>, <<"a", "l", "x">>} : RemoveFile(TheFs, p)
    \/ \E p \in {<<"d", "b">>, <<"a", "l", "x">>} : RemoveDirectory(TheFs, p)
    \/ \E fs \in FileSystems, p \in {<<"d">>, <<"a", "l">>} : List(fs, p)
    \/ /\ FileSystems = {TheFs}
       /\ Clone(TheFs)

SpecSiblings == Init /\ [][NextSiblings]_vars

\* no two entries of the sequence have the same name under the case rule
UniqueNames(h, seq, cs) ==
    \A i, j \in DOMAIN seq :
        i # j => compareStrings(h[seq[i]].name, h[seq[j]].name, ~cs) # 0

\* C32: no directory has two children whose names are equal under the case
\* rule of its file system
SiblingsUnique ==
    \A d \in 1 .. Len(heap) :
        heap[d].kind \in DirKinds =>
            UniqueNames(heap, Children(heap, d), heap[heap[d].fsys].cs)

\* the entry occurs in the sequence
Holds(seq, e) == \E i \in DOMAIN seq : seq[i] = e

\* C33: when the handlers of childAdded are called the new child is among
\* the children of the emitter, when those of childRemoved are called the
\* removed child is not; the operation does not touch the children of the
\* emitter after its last notification
DispatchAfterMutation ==
    [][\A i \in DOMAIN last'.ev :
          /\ last'.ev[i][2] = "childAdded" => Holds(last'.ev[i][4], last'.ev[i][3])
          /\ last'.ev[i][2] = "childRemoved" => ~Holds(last'.ev[i][4], last'.ev[i][3])
          /\ (\A j \in DOMAIN last'.ev : j > i => last'.ev[j][1] # last'.ev[i][1])
                => Children(heap', last'.ev[i][1]) = last'.ev[i][4]
      ]_vars

(***************************************************************************)
(* Notifications of adds and removes.  In the tree of /a (file f,          *)
(* directory d, file symlink l) entries are added at paths that exist,     *)
(* that hold another kind and whose directories are missing, and are       *)
(* removed again; the directory /a is asked to add at a path with an empty *)
(* component.                                                              *)
(***************************************************************************)
Deep == <<"n", "x", "y">>            \* two missing directories
Gap  == <<"n", "", "y">>             \* an empty component: an invalid path

NotifyFilePaths == {<<"a", "f">>, <<"a", "d">>, <<"a", "f", "n">>, Deep}
NotifyDirPaths  == {<<"a", "d">>, <<"a", "f">>, <<"n", "x">>}
NotifyLinkPaths == {<<"a", "l">>, <<"a", "d">>, <<"n", "l">>}
NotifyTargets   == {<<"a", "f">>, <<"a", "q">>}

NextNotify ==
    \/ \E p \in NotifyFilePaths : AddFile(TheFs, p, "c2")
    \/ \E p \in NotifyDirPaths : AddDirectory(TheFs, p, 0)
    \/ \E method \in {"addFile", "addDirectory"} :
            AddIn(method, TheFs, <<"a">>, Abs(Gap))
    \/ \E p \in NotifyLinkPaths, t \in NotifyTargets : AddSymlinkTo(TheFs, p, t)
    \/ \E p \in {<<"a", "f">>, <<"a", "d">>, <<"a", "n">>, Deep} : RemoveFile(TheFs, p)
    \/ \E p \in {<<"a", "d">>, <<"a", "f">>, <<"n", "x">>, <<"n">>} :
            RemoveDirectory(TheFs, p)

SpecNotify == InitAddRemove /\ [][NextNotify]_vars

\* the children of directory d in heap h, none when d does not exist yet
EntriesIn(h, d) == IF d <= Len(h) THEN h[d].entries ELSE <<>>

\* how often the call notified that e was added to / removed from d
Notified(call, d, name, e) ==
    Cardinality({i \in DOMAIN call.ev :
                   /\ call.ev[i][1] = d
                   /\ call.ev[i][2] = name
                   /\ call.ev[i][3] = e})

Adds == {"addFile", "addDirectory", "addSymlink"}

\* C34: a directory notifies childAdded once for each entry created in it
\* and childRemoved once for each entry detached from it, and nothing else;
\* an add that returns an existing entry or absent and a remove that returns
\* false notify nothing
NotifiedOncePerChange ==
    [][/\ \A d \in 1 .. Len(heap'), e \in 1 .. Len(heap') :
             heap'[d].kind \in {"dir", "root"} =>
                /\ Notified(last', d, "childAdded", e) =
                      IF Holds(heap'[d].entries, e) /\ ~Holds(EntriesIn(heap, d), e)
                      THEN 1 ELSE 0
                /\ Notified(last', d, "childRemoved", e) =
                      IF ~Holds(heap'[d].entries, e) /\ Holds(EntriesIn(heap, d), e)
                      THEN 1 ELSE 0
       /\ (last'.op \in Adds /\ last'.e <= Len(heap)) => last'.ev = <<>>
       /\ (last'.op \in {"removeFile", "removeDirectory"} /\ ~last'.ok)
             => last'.ev = <<>>
      ]_vars

\* C35: an add with a path of several components that returns absent has
\* created no object and changed the children of no directory
FailedAddIsNoOp ==
    [][(/\ last'.op \in Adds
        /\ Len(last'.path) > 1 \/ Len(last'.arg) > 2
        /\ last'.ex = ""
        /\ last'.e = None) =>
            /\ Len(heap') = Len(heap)
            /\ \A d \in 1 .. Len(heap) : heap'[d].entries = heap[d].entries
      ]_vars

(***************************************************************************)
(* Adds below missing directories.  Files, directories and symlinks are    *)
(* added at paths whose directories are missing, exist, exist under a name *)
(* that differs in case, are backed by the store, or are reached through   *)
(* the directory symlink /a/l, in the tree and in its clone.               *)
(***************************************************************************)
MkdirFiles == {Deep, <<"a", "n", "y">>, <<"A", "n">>, <<"a", "l", "x">>,
               <<"a", "f", "y">>}
MkdirDirs  == {<<"n", "x">>, <<"d", "b", "n">>, <<"a", "l", "n">>}
MkdirLinks == {<<"n", "l">>, <<"a", "k">>}

NextMkdir ==
    \/ \E fs \in FileSystems, p \in MkdirFiles : AddFile(fs, p, "c2")
    \/ \E p \in MkdirDirs : AddDirectory(TheFs, p, 0)
    \/ \E p \in MkdirLinks : AddSymlinkTo(TheFs, p, <<"a", "f">>)
    \/ \E p \in {<<"n", "x">>, <<"n">>} : RemoveDirectory(TheFs, p)
    \/ /\ FileSystems = {TheFs}
       /\ Clone(TheFs)

SpecMkdir == Init /\ [][NextMkdir]_vars

\* the first k components of a path
Prefix(path, k) == SubSeq(path, 1, k)

\* fs.getEntry(path) on a copy of the heap, None when absent
EntryIn(h, fs, path) ==
    Do(Observer(h), "fsGetEntry", <<fs, Abs(path), "", FALSE>>).v

\* every proper prefix of the path of the call names a directory, and a
\* prefix that named an object of the heap before the call names it still
Intermediates(h, h2, call) ==
    \A k \in 1 .. Len(call.path) - 1 :
        With(EntryIn(h2, call.fs, Prefix(call.path, k)), LAMBDA e :
            /\ e # None
            /\ IsDir(h2, e)
            /\ With(EntryIn(h, call.fs, Prefix(call.path, k)), LAMBDA b :
                   (b # None /\ b <= Len(h)) => e = b))

\* an add with a path of several components has returned an entry
AddedDeep(call) ==
    /\ call.op \in Adds
    /\ Len(call.path) > 1
    /\ call.ex = ""
    /\ call.e # None

\* a proper prefix of the path names a directory symlink
ViaLink(h, fs, path) ==
    \E k \in 1 .. Len(path) - 1 :
        With(EntryIn(h, fs, Prefix(path, k)), LAMBDA e :
            e # None /\ e <= Len(h) /\ h[e].kind = "dlink")

\* C36: after an add with a path of several components has returned an
\* entry, every proper prefix of the path names a directory, the prefixes
\* that named an entry before name the same entry, and the path names the
\* entry returned
MkdirP ==
    [][AddedDeep(last') =>
          /\ Intermediates(heap, heap', last')
          /\ EntryIn(heap', last'.fs, last'.path) = last'.e
      ]_vars

\* C36, amended: as MkdirP, the path naming the entry returned when none of
\* its proper prefixes is a directory symlink
MkdirPReal ==
    [][AddedDeep(last') =>
          /\ Intermediates(heap, heap', last')
          /\ ~ViaLink(heap', last'.fs, last'.path) =>
                EntryIn(heap', last'.fs, last'.path) = last'.e
      ]_vars

\* a file has been added below two directories that were missing
DeepAddWitness ==
    /\ AddedDeep(last)
    /\ last.path = Deep
    /\ last.e > Len(BaseTree.h) + 2
    /\ EntryIn(heap, last.fs, Prefix(Deep, 2)) = heap[last.e].parent

(***************************************************************************)
(* Recursive listing.  The tree (the store-backed /d with b/a and f, /a/f  *)
(* and the directory symlink /a/l to /d) is listed from the file system,   *)
(* from /a and from /d, with and without a pattern and a kind, while files *)
(* and directories are added and removed.                                  *)
(***************************************************************************)
ListPatterns == {NoPattern, {"b", "f"}, {"a", "x"}}
ListKinds    == {"", "file", "directory"}
ListRoots    == {<<>>, <<"a">>, <<"d">>}

\* c = fs (for the empty path) or fs.getDirectory(path); c.getEntries(options)
ListAll(fs, path, options) ==
    With(IF path = <<>> THEN FsRoot(Machine(heap), fs)
         ELSE Do(Machine(heap), "fsGetEntry", <<fs, Abs(path), "directory", FALSE>>),
         LAMBDA g :
    /\ Ok(g) /\ g.v # None
    /\ With(Do(g.m, "getEntries", <<IF path = <<>> THEN fs ELSE g.v, options>>),
            LAMBDA l :
       Done(l.m, [Call("getEntries(options)", fs, path) EXCEPT
                     !.e = g.v,
                     !.options = options,
                     !.arg = IF Ok(l) THEN l.v ELSE <<>>,
                     !.names = IF Ok(l) THEN NamesOf(l.m.h, l.v) ELSE <<>>])))

NextListing ==
    \/ \E p \in ListRoots, pattern \in ListPatterns, kind \in ListKinds :
            ListAll(TheFs, p, Options(TRUE, pattern, kind))
    \/ \E p \in ListRoots, kind \in ListKinds :
            ListAll(TheFs, p, Options(FALSE, {"b", "f"}, kind))
    \/ \E p \in {<<"a", "l", "x">>, <<"d", "b", "x">>} : AddFile(TheFs, p, "c2")
    \/ AddDirectory(TheFs, <<"a", "n", "b">>, 0)
    \/ \E p \in {<<"d", "f">>, <<"a", "l", "x">>} : RemoveFile(TheFs, p)

SpecListing == InitMaterialize /\ [][NextListing]_vars

\* the entries below a directory
RECURSIVE Subtree(_, _)
Subtree(h, d) ==
    UNION {{Children(h, d)[i]} \cup
           (IF IsDir(h, Children(h, d)[i]) THEN Subtree(h, Children(h, d)[i])
            ELSE {}) : i \in DOMAIN Children(h, d)}

\* the first position of an entry among the children of its parent
IndexIn(seq, e) == CHOOSE i \in DOMAIN seq : seq[i] = e /\ \A j \in 1 .. i - 1 : seq[j] # e

\* the positions that lead from the directory listed down to an entry
RECURSIVE Position(_, _, _)
Position(h, top, e) ==
    IF e = top THEN <<>>
    ELSE Append(Position(h, top, Holder(h, e)),
                IndexIn(Children(h, Holder(h, e)), e))

\* depth first, parent before children: p comes before q when p is a proper
\* prefix of q or is smaller at the first position where they differ
Precedes(p, q) ==
    \/ Len(p) < Len(q) /\ SubSeq(q, 1, Len(p)) = p
    \/ \E k \in 1 .. Len(p) :
          /\ k <= Len(q)
          /\ SubSeq(p, 1, k - 1) = SubSeq(q, 1, k - 1)
          /\ p[k] < q[k]

\* C37: a recursive listing holds every entry below the directory that
\* matches the pattern and the kind exactly once, also below directories
\* that do not match, and nothing else, every directory before its
\* descendants and siblings in the order of the children
PreOrder ==
    [][(/\ last'.op = "getEntries(options)"
        /\ last'.options.recursive
        /\ last'.ex = "") =>
            /\ \A i \in DOMAIN last'.arg :
                  /\ last'.arg[i] \in Subtree(heap', last'.e)
                  /\ isMatchOptions(heap', last'.arg[i], last'.options)
            /\ \A x \in Subtree(heap', last'.e) :
                  isMatchOptions(heap', x, last'.options) =>
                     Cardinality({i \in DOMAIN last'.arg : last'.arg[i] = x}) = 1
            /\ \A i, j \in DOMAIN last'.arg :
                  i < j => Precedes(Position(heap', last'.e, last'.arg[i]),
                                    Position(heap', last'.e, last'.arg[j]))
      ]_vars

(***************************************************************************)
(* Recursive listing of a tree with a directory symlink that leads back    *)
(* to a directory above itself: /p/d/u is a symlink whose target is set to *)
(* /p, to /p/d, to the directory /q or to a missing path, and the file     *)
(* system, /p and /q are listed recursively.                               *)
(***************************************************************************)
TheUp == <<"p", "d", "u">>

UpCalls ==
    << <<"fsAddFile", <<TheFs, Abs(<<"q", "f">>), "c1">> >>,
       <<"fsAddSymlink", <<TheFs, Abs(TheUp), TargetPath(Abs(<<"q">>))>> >> >>

UpTree == Script(EmptyFs(TRUE), UpCalls, 1)

UpTargets == {<<"p">>, <<"p", "d">>, <<"q">>, <<"p", "n">>}

InitUp ==
    /\ heap = UpTree.h
    /\ last = NoCall
    /\ nops = 0

NextUp ==
    \/ \E t \in UpTargets : SetTarget(TheFs, TheUp, t)
    \/ \E p \in {<<>>, <<"p">>, <<"q">>}, kind \in ListKinds :
            ListAll(TheFs, p, Options(TRUE, NoPattern, kind))
    \/ \E p \in {<<>>, TheUp} :
            ListAll(TheFs, p, Options(FALSE, NoPattern, ""))
    \/ \E p \in {<<"q", "x">>, <<"p", "x">>} : AddFile(TheFs, p, "c2")
    \/ RemoveFile(TheFs, <<"q", "f">>)

SpecUp == InitUp /\ [][NextUp]_vars

\* C38: a recursive listing returns, also on a tree with a directory
\* symlink whose target is one of the directories above it
RecursiveListingTerminates ==
    [][(last'.op = "getEntries(options)" /\ last'.options.recursive)
          => last'.ex = ""]_vars

\* what the file system shows at a path: the content of a file, the names a
\* directory lists
ShowsIn(h, fs, path) ==
    Bind(Do(Observer(h), "fsGetEntry", <<fs, Abs(path), "", FALSE>>), LAMBDA g :
    IF g.v = None THEN Ret(g.m, <<>>)
    ELSE IF IsFile(g.m.h, g.v)
    THEN Bind(Do(g.m, "getContent", <<g.v>>), LAMBDA c : Ret(c.m, <<"file", c.v>>))
    ELSE Bind(Do(g.m, "getOwnEntries", <<g.v>>), LAMBDA l :
         Ret(l.m, <<"directory", NamesOf(l.m.h, l.v)>>))).v

SnapshotPaths == {<<"a">>, TheFile}

\* the clone has the path and has not visited it: its entry does not exist
\* yet, or has been neither listed or mutated (a directory) nor read or
\* written (a file)
Unvisited(h, call, path) ==
    /\ EntryIn(h, TheClone, path) # None
    /\ \/ EntryIn(h, TheClone, path) > Len(h)
       \/ ~Touched(h, call, EntryIn(h, TheClone, path))

\* C39: an add, remove or setContent on the original made after the clone
\* was taken does not change what the clone shows at a directory or file it
\* has not visited yet
CloneIsSnapshot ==
    [][(last'.fs = TheFs /\ last'.op \in MutationOps /\ last'.ex = "") =>
          \A p \in SnapshotPaths :
             Unvisited(heap, last, p) =>
                ShowsIn(heap', TheClone, p) = ShowsIn(heap, TheClone, p)
      ]_vars

(***************************************************************************)
(* The current directory: it is changed with absolute, relative and empty  *)
(* paths, before and after the file system is frozen, and files are added, *)
(* looked up and removed under relative paths.                             *)
(***************************************************************************)
CwdPaths == {Abs(<<"a">>), Rel(<<"a">>), Rel(<<"d">>), Rel(<<>>), Abs(<<>>)}
RelFiles == {<<"f">>, <<"x">>, <<"a", "f">>}

PathForm(p) == IF p.abs THEN <<"absolute">> ELSE <<"relative">>

\* fs.changeDirectory(path)
ChangeDirectoryTo(fs, p) ==
    Done(Do(Machine(heap), "changeDirectory", <<fs, p>>).m,
         [Call("changeDirectory", fs, p.segs) EXCEPT !.arg = PathForm(p)])

\* fs.addFile(path, content), fs.getFile(path), fs.removeFile(path) with a
\* relative path
AddFileAt(fs, segs, content) ==
    With(Do(Machine(heap), "fsAddFile", <<fs, Rel(segs), content>>), LAMBDA r :
    Done(r.m, [Call("addFile", fs, segs) EXCEPT
                  !.e = r.v, !.content = content, !.arg = PathForm(Rel(segs))]))

GetFileAt(fs, segs) ==
    With(Do(Machine(heap), "fsGetEntry", <<fs, Rel(segs), "file", FALSE>>),
         LAMBDA g :
    Done(g.m, [Call("getFile", fs, segs) EXCEPT
                  !.e = g.v, !.arg = PathForm(Rel(segs))]))

RemoveFileAt(fs, segs) ==
    With(Do(Machine(heap), "fsRemoveFile", <<fs, Rel(segs)>>), LAMBDA r :
    Done(r.m, [Call("removeFile", fs, segs) EXCEPT
                  !.ok = Ok(r) /\ r.v, !.arg = PathForm(Rel(segs))]))

NextCwd ==
    \/ \E p \in CwdPaths : ChangeDirectoryTo(TheFs, p)
    \/ \E p \in RelFiles : AddFileAt(TheFs, p, "c2")
    \/ \E p \in RelFiles : GetFileAt(TheFs, p)
    \/ \E p \in RelFiles : RemoveFileAt(TheFs, p)
    \/ MakeReadOnly(TheFs)

SpecCwd == InitMaterialize /\ [][NextCwd]_vars

\* the path a relative path stands for in the file system of the call
FromCwd(h, call) == Abs(h[call.fs].cwd.segs \o call.path)

\* the method of the file system a call record stands for, and its arguments
\* with the path replaced by an absolute one
AbsoluteCall(h, call) ==
    IF call.op = "addFile"
    THEN Do(Machine(h), "fsAddFile", <<call.fs, FromCwd(h, call), call.content>>)
    ELSE IF call.op = "getFile"
    THEN Do(Machine(h), "fsGetEntry", <<call.fs, FromCwd(h, call), "file", FALSE>>)
    ELSE Do(Machine(h), "fsRemoveFile", <<call.fs, FromCwd(h, call)>>)

\* C40: changeDirectory on a frozen file system raises and changes nothing;
\* on an unfrozen one it raises nothing and changes no field of any object
\* but currentDirectory, and nothing at all for the empty path; an add, get
\* or remove with a relative path then does what the same call does with
\* the path appended to currentDirectory
ChangeDirectoryGuarded ==
    [][/\ last'.op = "changeDirectory" =>
            IF heap[last'.fs].ro
            THEN last'.ex = "frozen" /\ heap' = heap
            ELSE /\ last'.ex = ""
                 /\ heap' = [heap EXCEPT ![last'.fs].cwd = heap'[last'.fs].cwd]
                 /\ (last'.path = <<>> /\ last'.arg = <<"relative">>) => heap' = heap
                 /\ (last'.arg = <<"relative">> /\ last'.path # <<>>) =>
                        heap'[last'.fs].cwd = FromCwd(heap, last')
                 /\ last'.arg = <<"absolute">> =>
                        heap'[last'.fs].cwd = Abs(last'.path)
       /\ (last'.op \in {"addFile", "getFile", "removeFile"}
             /\ last'.arg = <<"relative">>) =>
            /\ heap' = AbsoluteCall(heap, last').m.h
            /\ last'.ex = AbsoluteCall(heap, last').m.ex
            /\ last'.op \in {"addFile", "getFile"} =>
                  last'.e = AbsoluteCall(heap, last').v
            /\ last'.op = "removeFile" =>
                  last'.ok = (last'.ex = "" /\ AbsoluteCall(heap, last').v)
      ]_vars

\* a file was added under a relative path after the current directory was
\* changed to /a
RelativeAddWitness ==
    /\ last.op = "addFile"
    /\ last.arg = <<"relative">>
    /\ last.path = <<"x">>
    /\ heap[TheFs].cwd = Abs(<<"a">>)
    /\ last.e # None
    /\ EntryIn(heap, TheFs, <<"a", "x">>) = last.e

====
